---- MODULE Spec2Model ----
(***************************************************************************)
(* Personal Finance Tracker: the bounded expiring cache (CacheManager),   *)
(* the metrics recorder (PerformanceMonitor), the mock data generator and *)
(* the stock fetch orchestrator (fetchStockData).                         *)
(*                                                                         *)
(* Strings the code inspects character by character (stock symbols, cache *)
(* keys) are sequences of one-character strings.  Money is in cents.      *)
(* Time is in milliseconds.                                               *)
(***************************************************************************)
EXTENDS Integers, Sequences, FiniteSets, TLC

\* ---------------------------------------------------------------- bounds
\* Number of fetchStockData invocations in one behaviour.
MaxFetches == 2
\* Number of clock advances in one behaviour.
MaxTicks == 1
\* Number of fetchStockData invocations that may be in flight together.
MaxCalls == 2
\* options.maxSize handed to the CacheManager constructor.
CacheMaxSize == 2
\* Number of clock advances between the calls of a client of the cache.
MaxCacheTicks == 1
\* Number of get and has calls counted by one CacheManager before a clear.
MaxRequests == 3
\* Number of recordings beyond the capacity of a sample buffer.
MaxOverflow == 2
\* Number of periods of the cleanup timer a long-lived cache is followed for.
MaxCleanups == 2
\* Number of addStock invocations that can be under way together.
MaxAdds == 2
\* Number of fetchStockData invocations that addStock invocations may begin
\* with (an invocation under way always makes its second fetch).
MaxAddFetches == 3

\* ------------------------------------------------------- APP_CONSTANTS
STOCK_DURATION == 60000
MOCK_DURATION == 30000
ERROR_DURATION == 10000
CLEANUP_INTERVAL == 600000
API_TIMEOUT == 10000
MAX_SYMBOL_LENGTH == 10
MAX_INPUT_LENGTH == 50
MaxLoadTimes == 100
MaxRecentErrors == 10
SlowLoadTime == 2000

\* The clock is observed at multiples of the shortest cache duration.
TickStep == ERROR_DURATION

\* ------------------------------------------------------------- strings
Upper == {"A", "B", "C", "D", "E", "F", "G", "H", "I", "J", "K", "L", "M",
          "N", "O", "P", "Q", "R", "S", "T", "U", "V", "W", "X", "Y", "Z"}
Lower == {"a", "b", "c", "d", "e", "f", "g", "h", "i", "j", "k", "l", "m",
          "n", "o", "p", "q", "r", "s", "t", "u", "v", "w", "x", "y", "z"}

\* String.prototype.toUpperCase on one character.
UpperOf(ch) ==
    CASE ch = "a" -> "A" [] ch = "b" -> "B" [] ch = "c" -> "C" [] ch = "d" -> "D"
      [] ch = "e" -> "E" [] ch = "f" -> "F" [] ch = "g" -> "G" [] ch = "h" -> "H"
      [] ch = "i" -> "I" [] ch = "j" -> "J" [] ch = "k" -> "K" [] ch = "l" -> "L"
      [] ch = "m" -> "M" [] ch = "n" -> "N" [] ch = "o" -> "O" [] ch = "p" -> "P"
      [] ch = "q" -> "Q" [] ch = "r" -> "R" [] ch = "s" -> "S" [] ch = "t" -> "T"
      [] ch = "u" -> "U" [] ch = "v" -> "V" [] ch = "w" -> "W" [] ch = "x" -> "X"
      [] ch = "y" -> "Y" [] ch = "z" -> "Z" [] OTHER -> ch

toUpperCase(s) == [i \in 1..Len(s) |-> UpperOf(s[i])]

\* Characters sanitizeInput deletes (angle brackets and quote characters;
\* the quote characters are written by name).
StrippedChars == {"<", ">", "QUOTE", "APOSTROPHE", "BACKTICK"}

RECURSIVE StripChars(_)
StripChars(s) ==
    IF s = <<>> THEN <<>>
    ELSE IF Head(s) \in StrippedChars THEN StripChars(Tail(s))
    ELSE <<Head(s)>> \o StripChars(Tail(s))

RECURSIVE TrimLeft(_)
TrimLeft(s) == IF s # <<>> /\ Head(s) = " " THEN TrimLeft(Tail(s)) ELSE s

RECURSIVE TrimRight(_)
TrimRight(s) ==
    IF s # <<>> /\ s[Len(s)] = " " THEN TrimRight(SubSeq(s, 1, Len(s) - 1)) ELSE s

\* SecurityManager.sanitizeInput for a string input with the default options.
\* The protocol and event-handler patterns it also deletes each contain a
\* colon or an equals sign, and control characters are not letters: no string
\* over the alphabet used here matches them.
sanitizeInput(s) ==
    LET t == TrimRight(TrimLeft(StripChars(s)))
    IN  IF Len(t) > MAX_INPUT_LENGTH THEN SubSeq(t, 1, MAX_INPUT_LENGTH) ELSE t

\* STOCK_SYMBOL_PATTERN /^[A-Za-z.]{1,10}$/
STOCK_SYMBOL_PATTERN(s) ==
    /\ Len(s) >= 1
    /\ Len(s) <= 10
    /\ \A i \in 1..Len(s) : s[i] \in Upper \cup Lower \cup {"."}

\* SecurityManager.validateStockSymbol
validateStockSymbol(symbol) ==
    IF symbol = <<>> THEN FALSE
    ELSE LET sanitized == sanitizeInput(toUpperCase(symbol))
         IN  /\ STOCK_SYMBOL_PATTERN(sanitized)
             /\ Len(sanitized) >= 1
             /\ Len(sanitized) <= MAX_SYMBOL_LENGTH

\* SecurityManager.validateInput(input, stock_symbol)
validateInput(symbol) == validateStockSymbol(symbol)

\* The identifiers fetchStockData is called with.
AAPL == <<"A", "A", "P", "L">>
ZZ == <<"Z", "Z">>
ToStringSym == <<"t", "o", "S", "t", "r", "i", "n", "g">>
EmptySym == <<>>
TooLongSym == <<"A", "B", "C", "D", "E", "F", "G", "H", "I", "J", "K">>

Symbols == {AAPL, ZZ, ToStringSym, EmptySym, TooLongSym}

\* What a user types for AAPL.
toLowerAAPL == <<"a", "a", "p", "l">>

\* cacheKey is the symbol prefixed with stock_
CacheKeyOf(symbol) == <<"stock_">> \o symbol

\* ------------------------------------------------------------ payloads
\* A JavaScript value held by the cache or returned by a fetch: null, or a
\* stock object.  price and change are in cents, changePercent in hundredths
\* of a percent; isMockData is FALSE where the object has no such property.
NullValue ==
    [kind |-> "null", symbol |-> <<>>, price |-> 0, change |-> 0,
     changePercent |-> 0, lastUpdated |-> 0, isMockData |-> FALSE,
     source |-> "none", errorReason |-> "none"]

\* The value undefined, which CacheManager.set rejects.
UndefinedValue == [NullValue EXCEPT !.kind = "undefined"]

\* JavaScript truthiness of a value: every object is truthy.
Truthy(v) == v.kind = "object"

\* ---------------------------------------------------- Map (insertion order)
\* A JavaScript Map is a sequence of [key, value] in insertion order.
MapHas(m, k) == \E i \in 1..Len(m) : m[i].key = k

MapIndex(m, k) == CHOOSE i \in 1..Len(m) : m[i].key = k

MapGet(m, k) == m[MapIndex(m, k)].value

\* Map.prototype.set: an existing key keeps its position.
MapSet(m, k, v) ==
    IF MapHas(m, k) THEN [m EXCEPT ![MapIndex(m, k)].value = v]
    ELSE Append(m, [key |-> k, value |-> v])

MapDelete(m, k) == SelectSeq(m, LAMBDA e : e.key # k)

MapKeys(m) == {m[i].key : i \in 1..Len(m)}

\* -------------------------------------------------------- CacheManager
\* A CacheManager is [cache, timestamps, hitCount, missCount]; maxSize is
\* CacheMaxSize.
NewCacheManager == [cache |-> <<>>, timestamps |-> <<>>, hitCount |-> 0, missCount |-> 0]

\* delete forgetting the value but keeping its expiry.
CacheDelete_KeepsExpiry(cm, key) ==
    IF MapHas(cm.cache, key)
    THEN [cm |-> [cm EXCEPT !.cache = MapDelete(cm.cache, key)], result |-> TRUE]
    ELSE [cm |-> cm, result |-> FALSE]

\* delete reporting success whether or not the key was there.
CacheDelete_AlwaysTrue(cm, key) ==
    [cm |-> [cm EXCEPT !.cache = MapDelete(cm.cache, key),
                       !.timestamps = MapDelete(cm.timestamps, key)],
     result |-> TRUE]

\* CacheManager.delete: the manager afterwards and the returned boolean.
CacheDelete(cm, key) ==
    IF MapHas(cm.cache, key)
    THEN [cm |-> [cm EXCEPT !.cache = MapDelete(cm.cache, key),
                           !.timestamps = MapDelete(cm.timestamps, key)],
          result |-> TRUE]
    ELSE [cm |-> cm, result |-> FALSE]

\* enforceMaxSize deleting the newest entry instead of the oldest.
RECURSIVE enforceMaxSize_DropNewest(_)
enforceMaxSize_DropNewest(cm) ==
    IF Len(cm.cache) >= CacheMaxSize /\ Len(cm.cache) > 0
    THEN enforceMaxSize_DropNewest(CacheDelete(cm, cm.cache[Len(cm.cache)].key).cm)
    ELSE cm

\* CacheManager.enforceMaxSize
RECURSIVE enforceMaxSize(_)
enforceMaxSize(cm) ==
    IF Len(cm.cache) >= CacheMaxSize /\ Len(cm.cache) > 0 /\ cm.cache[1].key # <<>>
    THEN enforceMaxSize(CacheDelete(cm, cm.cache[1].key).cm)
    ELSE cm

\* set making room before it validates its arguments.
CacheSet_EnforceFirst(cm, key, value, duration, t) ==
    LET c1 == enforceMaxSize(cm)
    IN  IF key = <<>> \/ value.kind = "undefined"
        THEN [cm |-> c1, result |-> FALSE]
        ELSE [cm |-> [c1 EXCEPT !.cache = MapSet(c1.cache, key, value),
                                !.timestamps = MapSet(c1.timestamps, key, t + duration)],
              result |-> TRUE]

\* set storing the clock value as the expiry, without the duration.
CacheSet_NoDuration(cm, key, value, duration, t) ==
    IF key = <<>> \/ value.kind = "undefined"
    THEN [cm |-> cm, result |-> FALSE]
    ELSE LET c1 == enforceMaxSize(cm)
         IN  [cm |-> [c1 EXCEPT !.cache = MapSet(c1.cache, key, value),
                                !.timestamps = MapSet(c1.timestamps, key, t)],
              result |-> TRUE]

\* set leaving an entry that is already there as it is (first write wins).
CacheSet_KeepExisting(cm, key, value, duration, t) ==
    IF key = <<>> \/ value.kind = "undefined"
    THEN [cm |-> cm, result |-> FALSE]
    ELSE IF MapHas(cm.cache, key)
    THEN [cm |-> cm, result |-> TRUE]
    ELSE LET c1 == enforceMaxSize(cm)
         IN  [cm |-> [c1 EXCEPT !.cache = MapSet(c1.cache, key, value),
                                !.timestamps = MapSet(c1.timestamps, key, t + duration)],
              result |-> TRUE]

\* CacheManager.set at clock value t: the manager afterwards and the result.
CacheSet(cm, key, value, duration, t) ==
    IF key = <<>> \/ value.kind = "undefined"
    THEN [cm |-> cm, result |-> FALSE]
    ELSE LET c1 == enforceMaxSize(cm)
         IN  [cm |-> [c1 EXCEPT !.cache = MapSet(c1.cache, key, value),
                                !.timestamps = MapSet(c1.timestamps, key, t + duration)],
              result |-> TRUE]

\* get still serving an entry at the instant it expires.
CacheGet_ExpiryInclusive(cm, key, t) ==
    IF key = <<>> \/ ~MapHas(cm.cache, key)
    THEN [cm |-> [cm EXCEPT !.missCount = @ + 1], result |-> NullValue]
    ELSE LET expirationTime ==
                 IF MapHas(cm.timestamps, key) THEN MapGet(cm.timestamps, key) ELSE 0
         IN  IF expirationTime # 0 /\ t <= expirationTime
             THEN [cm |-> [cm EXCEPT !.hitCount = @ + 1], result |-> MapGet(cm.cache, key)]
             ELSE [cm |-> [CacheDelete(cm, key).cm EXCEPT !.missCount = @ + 1],
                   result |-> NullValue]

\* get deleting an expired entry without counting the miss.
CacheGet_SilentExpiry(cm, key, t) ==
    IF key = <<>> \/ ~MapHas(cm.cache, key)
    THEN [cm |-> [cm EXCEPT !.missCount = @ + 1], result |-> NullValue]
    ELSE LET expirationTime ==
                 IF MapHas(cm.timestamps, key) THEN MapGet(cm.timestamps, key) ELSE 0
         IN  IF expirationTime # 0 /\ t < expirationTime
             THEN [cm |-> [cm EXCEPT !.hitCount = @ + 1], result |-> MapGet(cm.cache, key)]
             ELSE [cm |-> CacheDelete(cm, key).cm, result |-> NullValue]

\* CacheManager.get at clock value t: the manager afterwards and the value.
CacheGet(cm, key, t) ==
    IF key = <<>> \/ ~MapHas(cm.cache, key)
    THEN [cm |-> [cm EXCEPT !.missCount = @ + 1], result |-> NullValue]
    ELSE LET expirationTime ==
                 IF MapHas(cm.timestamps, key) THEN MapGet(cm.timestamps, key) ELSE 0
         IN  IF expirationTime # 0 /\ t < expirationTime
             THEN [cm |-> [cm EXCEPT !.hitCount = @ + 1], result |-> MapGet(cm.cache, key)]
             ELSE [cm |-> [CacheDelete(cm, key).cm EXCEPT !.missCount = @ + 1],
                   result |-> NullValue]

\* has probing with one get and answering with a second.
CacheHas_TwoGets(cm, key, t) ==
    [cm |-> CacheGet(CacheGet(cm, key, t).cm, key, t).cm,
     result |-> CacheGet(cm, key, t).result.kind # "null"]

\* CacheManager.has
CacheHas(cm, key, t) ==
    [cm |-> CacheGet(cm, key, t).cm, result |-> CacheGet(cm, key, t).result.kind # "null"]

\* clear emptying the maps but keeping the counters.
CacheClear_KeepCounters(cm) == [cm EXCEPT !.cache = <<>>, !.timestamps = <<>>]

\* CacheManager.clear
CacheClear(cm) == NewCacheManager

\* CacheManager.cleanup at clock value t: the loop over timestamps.entries().
RECURSIVE CleanupFrom(_, _, _)
CleanupFrom(cm, entries, t) ==
    IF entries = <<>> THEN cm
    ELSE LET e == Head(entries)
         IN  IF t >= e.value
             THEN CleanupFrom(CacheDelete(cm, e.key).cm, Tail(entries), t)
             ELSE CleanupFrom(cm, Tail(entries), t)

\* cleanup keeping an entry at the instant it expires.
CacheCleanup_Strict(cm, t) == CleanupFrom(cm, cm.timestamps, t - 1)

CacheCleanup(cm, t) == CleanupFrom(cm, cm.timestamps, t)

\* Math.round(x * 100) / 100 for x = 100 * num / den, in hundredths: the
\* nearest hundredth, a half rounding up.  (The floating-point quotient is
\* within one ulp of the rational one, which is never that close to a half
\* for the counts used here.)
RoundedPercent(num, den) == (2 * 10000 * num + den) \div (2 * den)

\* getStats computing the rate by truncation.
CacheGetStats_Truncated(cm) ==
    LET totalRequests == cm.hitCount + cm.missCount
    IN  [size |-> Len(cm.cache), maxSize |-> CacheMaxSize,
         hitCount |-> cm.hitCount, missCount |-> cm.missCount,
         hitRate |-> IF totalRequests > 0
                     THEN (10000 * cm.hitCount) \div totalRequests ELSE 0,
         items |-> [i \in 1..Len(cm.cache) |-> cm.cache[i].key]]

\* CacheManager.getStats (memoryUsage, a display string, is left out);
\* hitRate is in hundredths of a percent.
CacheGetStats(cm) ==
    LET totalRequests == cm.hitCount + cm.missCount
    IN  [size |-> Len(cm.cache), maxSize |-> CacheMaxSize,
         hitCount |-> cm.hitCount, missCount |-> cm.missCount,
         hitRate |-> IF totalRequests > 0
                     THEN RoundedPercent(cm.hitCount, totalRequests) ELSE 0,
         items |-> [i \in 1..Len(cm.cache) |-> cm.cache[i].key]]

\* -------------------------------------------------- PerformanceMonitor
\* The metrics the fetch path touches, with recentErrors.
NewPerformanceMonitor ==
    [apiCalls |-> 0, cacheHits |-> 0, cacheMisses |-> 0, errors |-> 0,
     loadTimes |-> <<>>, recentErrors |-> <<>>]

\* recordLoadTime dropping the newest sample of a full window.
recordLoadTime_DropNewest(pm, duration) ==
    IF duration > 0
    THEN LET pushed == Append(pm.loadTimes, duration)
         IN  [pm EXCEPT !.loadTimes =
                 IF Len(pushed) > MaxLoadTimes
                 THEN SubSeq(pushed, 1, MaxLoadTimes) ELSE pushed]
    ELSE pm

\* PerformanceMonitor.recordLoadTime (duration is always a number here)
recordLoadTime(pm, duration) ==
    IF duration > 0
    THEN LET pushed == Append(pm.loadTimes, duration)
         IN  [pm EXCEPT !.loadTimes =
                 IF Len(pushed) > MaxLoadTimes THEN Tail(pushed) ELSE pushed]
    ELSE pm

\* recordAPICall counting a call only when it comes with a duration.
recordAPICall_OnlyTimed(pm, duration) ==
    IF duration > 0 THEN recordLoadTime([pm EXCEPT !.apiCalls = @ + 1], duration) ELSE pm

\* PerformanceMonitor.recordAPICall(endpoint, duration)
recordAPICall(pm, duration) ==
    LET p1 == [pm EXCEPT !.apiCalls = @ + 1]
    IN  IF duration > 0 THEN recordLoadTime(p1, duration) ELSE p1

\* recordCacheHit counting nothing.
recordCacheHit_Dropped(pm) == pm

\* recordCacheHit bumping the wrong counter.
recordCacheHit_AsMiss(pm) == [pm EXCEPT !.cacheMisses = @ + 1]

\* PerformanceMonitor.recordCacheHit
recordCacheHit(pm) == [pm EXCEPT !.cacheHits = @ + 1]

\* PerformanceMonitor.recordCacheMiss
recordCacheMiss(pm) == [pm EXCEPT !.cacheMisses = @ + 1]

\* recordError keeping the sample but not counting the error.
recordError_NoCount(pm, error, context) ==
    LET pushed == Append(pm.recentErrors, [error |-> error, context |-> context])
    IN  [pm EXCEPT !.recentErrors =
                       IF Len(pushed) > MaxRecentErrors THEN Tail(pushed) ELSE pushed]

\* PerformanceMonitor.recordError(error, context)
recordError(pm, error, context) ==
    LET pushed == Append(pm.recentErrors, [error |-> error, context |-> context])
    IN  [pm EXCEPT !.errors = @ + 1,
                   !.recentErrors =
                       IF Len(pushed) > MaxRecentErrors THEN Tail(pushed) ELSE pushed]

\* recordAPIResponseTime recording only what it warns about.
recordAPIResponseTime_SlowOnly(pm, responseTime) ==
    IF responseTime > SlowLoadTime THEN recordLoadTime(pm, responseTime) ELSE pm

\* PerformanceMonitor.recordAPIResponseTime
recordAPIResponseTime(pm, responseTime) == recordLoadTime(pm, responseTime)

\* PerformanceMonitor.reset
resetMetrics(pm) == NewPerformanceMonitor

\* loadTimes.reduce((a, b) => a + b, 0)
RECURSIVE SumSeq(_)
SumSeq(q) == IF q = <<>> THEN 0 ELSE Head(q) + SumSeq(Tail(q))

\* Math.round(num / den) for den > 0: the nearest integer, a half rounding up.
RoundRatio(num, den) == (2 * num + den) \div (2 * den)

\* Math.max(0, Math.min(100, x))
Clamp100(x) == IF x < 0 THEN 0 ELSE IF x > 100 THEN 100 ELSE x

\* Math.round(score) in calculatePerformanceScore, before it is clamped.
\* errorRate * 10 is the ratio tenErrorRate / den; the comparisons of the
\* averages are made on the sums.
RoundedScore(pm) ==
    LET den == IF pm.apiCalls > 0 THEN pm.apiCalls ELSE 1
        tenErrorRate == IF pm.apiCalls > 0 THEN 1000 * pm.errors ELSE 0
        n == Len(pm.loadTimes)
        sum == SumSeq(pm.loadTimes)
        s1 == IF n > 0 /\ sum > 1000 * n THEN 100 - 20 ELSE 100
        s2 == IF n > 0 /\ sum > 2000 * n THEN s1 - 30 ELSE s1
        totalCacheRequests == pm.cacheHits + pm.cacheMisses
        s3 == IF totalCacheRequests > 0 /\ 100 * pm.cacheHits > 70 * totalCacheRequests
              THEN s2 + 10 ELSE s2
        s4 == IF totalCacheRequests > 0 /\ 100 * pm.cacheHits > 90 * totalCacheRequests
              THEN s3 + 20 ELSE s3
    IN  RoundRatio(s4 * den - tenErrorRate, den)

\* calculatePerformanceScore returning the rounded score without clamping it.
calculatePerformanceScore_Unclamped(pm) == RoundedScore(pm)

\* PerformanceMonitor.calculatePerformanceScore
calculatePerformanceScore(pm) == Clamp100(RoundedScore(pm))

\* PerformanceMonitor.getStats: the counters, the rates and the score.
\* averageLoadTime and cacheHitRate are in hundredths; errorRate, which the
\* code does not round, is the ratio num / den.  (Uptime, user interactions
\* and memory readings are left out.)
getStats(pm) ==
    LET n == Len(pm.loadTimes)
        totalCacheRequests == pm.cacheHits + pm.cacheMisses
    IN  [taken |-> TRUE,
         apiCalls |-> pm.apiCalls,
         averageLoadTime |-> IF n > 0 THEN RoundRatio(100 * SumSeq(pm.loadTimes), n) ELSE 0,
         cacheHits |-> pm.cacheHits,
         cacheMisses |-> pm.cacheMisses,
         cacheHitRate |-> IF totalCacheRequests > 0
                          THEN RoundedPercent(pm.cacheHits, totalCacheRequests) ELSE 0,
         errors |-> pm.errors,
         errorRate |-> IF pm.apiCalls > 0 THEN [num |-> 100 * pm.errors, den |-> pm.apiCalls]
                       ELSE [num |-> 0, den |-> 1],
         performanceScore |-> calculatePerformanceScore(pm)]

\* getStats has not been called.
NoStats ==
    [taken |-> FALSE, apiCalls |-> 0, averageLoadTime |-> 0, cacheHits |-> 0,
     cacheMisses |-> 0, cacheHitRate |-> 0, errors |-> 0,
     errorRate |-> [num |-> 0, den |-> 1], performanceScore |-> 0]

\* ----------------------------------------------- generateMockStockData
\* Math.random() in millionths: 0.000000 and 0.999990.
Rand == {0, 999990}

\* The values the two Math.random() calls of one generateMockStockData call
\* return, as drawn by the fetches of the state machine.
RandDraws == {<<0, 999990>>, <<999990, 0>>}

\* basePrices[symbol]: the table's own entries (in thousandths of a dollar),
\* then the properties every object literal inherits from Object.prototype,
\* which are functions.
basePrices(symbol) ==
    CASE symbol = <<"A", "A", "P", "L">> -> [kind |-> "number", value |-> 175000]
      [] symbol = <<"G", "O", "O", "G", "L">> -> [kind |-> "number", value |-> 140000]
      [] symbol = <<"M", "S", "F", "T">> -> [kind |-> "number", value |-> 350000]
      [] symbol = <<"A", "M", "Z", "N">> -> [kind |-> "number", value |-> 130000]
      [] symbol = <<"T", "S", "L", "A">> -> [kind |-> "number", value |-> 240000]
      [] symbol = <<"N", "V", "D", "A">> -> [kind |-> "number", value |-> 450000]
      [] symbol = <<"M", "E", "T", "A">> -> [kind |-> "number", value |-> 300000]
      [] symbol = <<"N", "F", "L", "X">> -> [kind |-> "number", value |-> 400000]
      [] symbol = <<"A", "M", "D">> -> [kind |-> "number", value |-> 110000]
      [] symbol = <<"C", "R", "M">> -> [kind |-> "number", value |-> 200000]
      [] symbol = <<"t", "o", "S", "t", "r", "i", "n", "g">> -> [kind |-> "function", value |-> 0]
      [] symbol = <<"v", "a", "l", "u", "e", "O", "f">> -> [kind |-> "function", value |-> 0]
      [] symbol = <<"c", "o", "n", "s", "t", "r", "u", "c", "t", "o", "r">> -> [kind |-> "function", value |-> 0]
      [] OTHER -> [kind |-> "undefined", value |-> 0]

\* Number.prototype.toFixed(2) followed by parseFloat: thousandths to cents.
toFixed2(mills) == (mills + 5) \div 10

\* generateMockStockData(symbol) at clock value t, with r1 and r2 the values
\* the two Math.random() calls return.  threw = TRUE is the TypeError raised by
\* basePrice.toFixed when basePrice is not a number.
generateMockStockData(symbol, r1, r2, t) ==
    LET found == basePrices(symbol)
        basePrice == IF found.kind = "number" THEN found.value
                     ELSE (r1 * 400) \div 1000 + 50000
        change == (((2 * r2 - 1000000) \div 1000) * basePrice) \div 20000
        changePercent == (change * 10000) \div basePrice
    IN  IF found.kind = "function"
        THEN [threw |-> TRUE, error |-> "basePrice.toFixed is not a function",
              value |-> NullValue]
        ELSE [threw |-> FALSE, error |-> "none",
              value |-> [kind |-> "object",
                         symbol |-> sanitizeInput(symbol),
                         price |-> toFixed2(basePrice),
                         change |-> toFixed2(change),
                         changePercent |-> changePercent,
                         lastUpdated |-> t,
                         isMockData |-> TRUE,
                         source |-> "mock_generator",
                         errorReason |-> "none"]]

\* ----------------------------------------------------- remote responses
\* What the awaited fetch() and response.json() deliver: a rejection by the
\* AbortSignal timeout or by the network, a response that is not ok, a body
\* that is no quote object (json() rejects, or a field of the quote is
\* missing), a body without a quote, or a quote.  A quote carries
\* parseFloat(quote[05. price]) || 0 in cents and echoes the requested symbol.
RemotePrices == {0, 15025}

Responses ==
    [kind : {"timeout", "network", "http", "empty", "malformed"}, price : {0}]
        \cup [kind : {"quote"}, price : RemotePrices]

\* The message of the error each failed response raises inside the try block.
ResponseError(kind) ==
    CASE kind = "timeout" -> "The operation timed out"
      [] kind = "network" -> "Failed to fetch"
      [] kind = "http" -> "API request failed"
      [] kind = "malformed" -> "Cannot read properties of undefined"
      [] OTHER -> "none"

\* performance.now() - startTime as the fetch measures it after a remote
\* round trip, in milliseconds: a round trip takes measurable time.
Latencies == {250, 2500}

\* -------------------------------------------------------- configuration
\* API_CONFIG.ALPHA_VANTAGE_KEY and ConfigLoader.config.ALPHA_VANTAGE_KEY:
\* "" is a missing key.
ApiKeys == {"", "DEMO_MODE", "REAL_KEY"}

\* ConfigLoader.isDemoMode
isDemoMode(loaderKey) == loaderKey = "DEMO_MODE"

\* ------------------------------------------------------ fetchStockData
\* The outcome of running fetchStockData up to its next suspension or its
\* settlement: the cache manager and monitor afterwards, and the promise
\* (status "awaiting" while the remote call is pending).
Outcome(cm, pm, status, value, error) ==
    [cm |-> cm, pm |-> pm, status |-> status, value |-> value, error |-> error]

\* The catch block refusing the fallback once the metrics hold an error.
FetchCatch_GivesUp(cm, pm, symbol, allowMockData, error, r1, r2, t) ==
    LET pm1 == recordError(pm, error, "stock_fetch")
        g == generateMockStockData(symbol, r1, r2, t)
        mockData == [g.value EXCEPT !.isMockData = TRUE, !.errorReason = error]
    IN  IF ~allowMockData \/ pm.errors > 0 THEN Outcome(cm, pm1, "rejected", NullValue, error)
        ELSE IF g.threw THEN Outcome(cm, pm1, "rejected", NullValue, g.error)
        ELSE Outcome(CacheSet(cm, CacheKeyOf(symbol), mockData, ERROR_DURATION, t).cm,
                     pm1, "fulfilled", mockData, "none")

\* The catch block caching the fallback before it decides to rethrow.
FetchCatch_WritesFirst(cm, pm, symbol, allowMockData, error, r1, r2, t) ==
    LET pm1 == recordError(pm, error, "stock_fetch")
        g == generateMockStockData(symbol, r1, r2, t)
        mockData == [g.value EXCEPT !.isMockData = TRUE, !.errorReason = error]
        cm1 == IF g.threw THEN cm
               ELSE CacheSet(cm, CacheKeyOf(symbol), mockData, ERROR_DURATION, t).cm
    IN  IF ~allowMockData THEN Outcome(cm1, pm1, "rejected", NullValue, error)
        ELSE IF g.threw THEN Outcome(cm1, pm1, "rejected", NullValue, g.error)
        ELSE Outcome(cm1, pm1, "fulfilled", mockData, "none")

\* The catch block returning its fallback without caching it.
FetchCatch_NoWrite(cm, pm, symbol, allowMockData, error, r1, r2, t) ==
    LET pm1 == recordError(pm, error, "stock_fetch")
        g == generateMockStockData(symbol, r1, r2, t)
        mockData == [g.value EXCEPT !.isMockData = TRUE, !.errorReason = error]
    IN  IF ~allowMockData THEN Outcome(cm, pm1, "rejected", NullValue, error)
        ELSE IF g.threw THEN Outcome(cm, pm1, "rejected", NullValue, g.error)
        ELSE Outcome(cm, pm1, "fulfilled", mockData, "none")

\* The catch block of fetchStockData.
FetchCatch(cm, pm, symbol, allowMockData, error, r1, r2, t) ==
    LET pm1 == recordError(pm, error, "stock_fetch")
        g == generateMockStockData(symbol, r1, r2, t)
        mockData == [g.value EXCEPT !.isMockData = TRUE, !.errorReason = error]
    IN  IF ~allowMockData THEN Outcome(cm, pm1, "rejected", NullValue, error)
        ELSE IF g.threw THEN Outcome(cm, pm1, "rejected", NullValue, g.error)
        ELSE Outcome(CacheSet(cm, CacheKeyOf(symbol), mockData, ERROR_DURATION, t).cm,
                     pm1, "fulfilled", mockData, "none")

\* A branch of the try block that returns generateMockStockData(symbol)
\* cached under MOCK_DURATION; a throw inside it lands in the catch block.
FetchMock(cm, pm, symbol, allowMockData, source, r1, r2, t) ==
    LET g == generateMockStockData(symbol, r1, r2, t)
        mockData == [g.value EXCEPT !.isMockData = TRUE, !.source = source]
    IN  IF g.threw THEN FetchCatch(cm, pm, symbol, allowMockData, g.error, r1, r2, t)
        ELSE Outcome(CacheSet(cm, CacheKeyOf(symbol), mockData, MOCK_DURATION, t).cm,
                     pm, "fulfilled", mockData, "none")

\* fetchStockData from its entry to the await of fetch(), or to its
\* settlement when it does not get that far.
FetchBegin(cm, pm, symbol, allowMockData, configLoaded, apiKey, hasLoader, loaderKey, r1, r2, t) ==
    IF ~validateInput(symbol)
    THEN FetchCatch(cm, pm, symbol, allowMockData, "Invalid stock symbol provided", r1, r2, t)
    ELSE LET got == CacheGet(cm, CacheKeyOf(symbol), t)
         IN  IF Truthy(got.result)
             THEN Outcome(got.cm, recordCacheHit(pm), "fulfilled", got.result, "none")
             ELSE LET pm1 == recordAPICall(recordCacheMiss(pm), 0)
                  IN  IF ~configLoaded \/ apiKey = ""
                      THEN IF ~allowMockData
                           THEN FetchCatch(got.cm, pm1, symbol, allowMockData,
                                    "API configuration not available and mock data not allowed",
                                    r1, r2, t)
                           ELSE FetchMock(got.cm, pm1, symbol, allowMockData,
                                          "mock_generator", r1, r2, t)
                      ELSE IF hasLoader /\ isDemoMode(loaderKey)
                      THEN FetchMock(got.cm, pm1, symbol, allowMockData,
                                     "mock_generator", r1, r2, t)
                      ELSE Outcome(got.cm, pm1, "awaiting", NullValue, "none")

\* fetchStockData from the settlement of the awaited remote call to its own
\* settlement; fetchTime is performance.now() - startTime.
FetchResume(cm, pm, symbol, allowMockData, response, fetchTime, r1, r2, t) ==
    IF response.kind \in {"timeout", "network", "http", "malformed"}
    THEN FetchCatch(cm, pm, symbol, allowMockData, ResponseError(response.kind), r1, r2, t)
    ELSE IF response.kind = "quote"
    THEN IF response.price <= 0
         THEN FetchCatch(cm, pm, symbol, allowMockData, "Invalid price data received", r1, r2, t)
         ELSE LET stockInfo == [kind |-> "object", symbol |-> sanitizeInput(symbol),
                                price |-> response.price, change |-> 0,
                                changePercent |-> 0, lastUpdated |-> t,
                                isMockData |-> FALSE, source |-> "none",
                                errorReason |-> "none"]
              IN  Outcome(CacheSet(cm, CacheKeyOf(symbol), stockInfo, STOCK_DURATION, t).cm,
                          recordAPIResponseTime(pm, fetchTime), "fulfilled", stockInfo, "none")
    ELSE IF ~allowMockData
         THEN FetchCatch(cm, pm, symbol, allowMockData,
                         "Invalid stock symbol or API limit reached", r1, r2, t)
         ELSE FetchMock(cm, pm, symbol, allowMockData, "api_fallback", r1, r2, t)

\* --------------------------------------------------------------- state
VARIABLES
    now,                \* Date.now()
    ticks,              \* clock advances so far
    cacheManager,       \* the CacheManager instance
    lastCleanup,        \* clock value of the last cleanup timer tick
    performanceMonitor, \* the PerformanceMonitor instance
    isConfigLoaded,     \* AppState.isConfigLoaded
    configLoader,       \* AppState.configLoader: "null" or "loader"
    loaderKey,          \* AppState.configLoader.config.ALPHA_VANTAGE_KEY
    apiConfigKey,       \* API_CONFIG.ALPHA_VANTAGE_KEY
    calls,              \* the fetchStockData invocations, by slot
    fetches,            \* fetchStockData invocations started so far
    remoteCalls,        \* requests sent to the remote source so far
    lastOp,             \* the CacheManager method a client called last
    lastStats,          \* what PerformanceMonitor.getStats returned last
    lastMock,           \* the last call of generateMockStockData: arguments and result
    portfolio,          \* AppState.portfolio
    stockData,          \* AppState.stockData
    storedPortfolio,    \* localStorage.portfolio
    adds                \* the addStock invocations, by slot

vars == <<now, ticks, cacheManager, lastCleanup, performanceMonitor, isConfigLoaded,
          configLoader, loaderKey, apiConfigKey, calls, fetches, remoteCalls, lastOp, lastStats, lastMock, portfolio, stockData, storedPortfolio, adds>>

Calls == 1..MaxCalls

\* No response delivered (yet).
NoResponse == [kind |-> "none", price |-> 0]

\* A slot before its first invocation.
IdleCall ==
    [pc |-> "idle", id |-> 0, symbol |-> <<>>, allowMockData |-> FALSE,
     status |-> "none", value |-> NullValue, error |-> "none", startedAt |-> 0,
     response |-> NoResponse]

\* generateMockStockData has not been called: no arguments, no result.
NoMock ==
    [called |-> FALSE, symbol |-> <<>>, r1 |-> 0, r2 |-> 0,
     out |-> [threw |-> FALSE, error |-> "none", value |-> NullValue]]

\* The slots of addStock invocations.
Adds == 1..MaxAdds

\* A slot before its first addStock invocation.  strict tells which of the
\* two fetches of addStock is under way; promise is the settled promise of
\* that fetch, which the invocation has yet to resume from.
IdleAdd ==
    [pc |-> "idle", symbol |-> <<>>, strict |-> FALSE,
     promise |-> [status |-> "none", value |-> NullValue, error |-> "none"]]

\* No CacheManager method has been called by a client yet.  A call is
\* recorded as its name and arguments (key, value, duration), what it
\* returned (ok for a boolean, returned for a value, stats for getStats) and
\* the number of entries it found.
NoOp ==
    [op |-> "none", key |-> <<>>, value |-> NullValue, duration |-> 0, ok |-> FALSE,
     returned |-> NullValue, stats |-> CacheGetStats(NewCacheManager), sizeBefore |-> 0]

\* The clock advances by the shortest cache duration or by a cleanup period.
TickSteps == {TickStep, CLEANUP_INTERVAL}

Init ==
    /\ now = 0
    /\ ticks = 0
    /\ cacheManager = NewCacheManager
    /\ lastCleanup = 0
    /\ performanceMonitor = NewPerformanceMonitor
    /\ isConfigLoaded = FALSE
    /\ configLoader = "null"
    /\ loaderKey = ""
    /\ apiConfigKey = ""
    /\ calls = [c \in Calls |-> IdleCall]
    /\ fetches = 0
    /\ remoteCalls = 0
    /\ lastOp = NoOp
    /\ lastStats = NoStats
    /\ lastMock = NoMock
    /\ portfolio = <<>>
    /\ stockData = <<>>
    /\ storedPortfolio = <<>>
    /\ adds = [a \in Adds |-> IdleAdd]

\* initializeConfig up to its await: the ConfigLoader is constructed.
InitializeConfigBegin ==
    /\ configLoader = "null"
    /\ configLoader' = "loader"
    /\ loaderKey' = ""
    /\ UNCHANGED <<now, ticks, cacheManager, lastCleanup, performanceMonitor,
                   isConfigLoaded, apiConfigKey, calls, fetches, remoteCalls, lastOp, lastStats, lastMock, portfolio, stockData, storedPortfolio, adds>>

\* initializeConfig after waitForConfig: the loaded configuration has key k.
InitializeConfigEnd(k) ==
    /\ configLoader = "loader"
    /\ ~isConfigLoaded
    /\ loaderKey' = k
    /\ apiConfigKey' = k
    /\ isConfigLoaded' = TRUE
    /\ UNCHANGED <<now, ticks, cacheManager, lastCleanup, performanceMonitor,
                   configLoader, calls, fetches, remoteCalls, lastOp, lastStats, lastMock, portfolio, stockData, storedPortfolio, adds>>

\* Time passes.
Tick(d) ==
    /\ ticks < MaxTicks
    /\ ticks' = ticks + 1
    /\ now' = now + d
    /\ UNCHANGED <<cacheManager, lastCleanup, performanceMonitor, isConfigLoaded,
                   configLoader, loaderKey, apiConfigKey, calls, fetches, remoteCalls,
                   lastOp, lastStats, lastMock, portfolio, stockData, storedPortfolio, adds>>

\* The setInterval callback of startCleanupInterval.
CleanupTimer ==
    /\ now - lastCleanup >= CLEANUP_INTERVAL
    /\ lastCleanup' = now
    /\ cacheManager' = CacheCleanup(cacheManager, now)
    /\ UNCHANGED <<now, ticks, performanceMonitor, isConfigLoaded, configLoader,
                   loaderKey, apiConfigKey, calls, fetches, remoteCalls, lastOp, lastStats, lastMock, portfolio, stockData, storedPortfolio, adds>>

\* An invocation that joins the pending remote call of another invocation for
\* the same symbol and sends no request of its own.
StartFetch_Coalesced(c, symbol, allowMockData, r1, r2) ==
    /\ fetches < MaxFetches
    /\ calls[c].pc # "awaiting"
    /\ \A b \in Calls : b < c => calls[b].pc = "awaiting"
    /\ LET o == FetchBegin(cacheManager, performanceMonitor, symbol, allowMockData,
                           isConfigLoaded, apiConfigKey, configLoader = "loader",
                           loaderKey, r1, r2, now)
           joined == \E b \in Calls : calls[b].pc = "awaiting" /\ calls[b].symbol = symbol
       IN  /\ cacheManager' = o.cm
           /\ performanceMonitor' = o.pm
           /\ fetches' = fetches + 1
           /\ remoteCalls' = IF o.status = "awaiting" /\ ~joined
                             THEN remoteCalls + 1 ELSE remoteCalls
           /\ calls' = [calls EXCEPT ![c] =
                  [pc |-> IF o.status = "awaiting" THEN "awaiting" ELSE "settled",
                   id |-> fetches + 1, symbol |-> symbol,
                   allowMockData |-> allowMockData,
                   status |-> IF o.status = "awaiting" THEN "none" ELSE o.status,
                   value |-> o.value, error |-> o.error, startedAt |-> now,
                   response |-> NoResponse]]
    /\ UNCHANGED <<now, ticks, lastCleanup, isConfigLoaded, configLoader, loaderKey,
                   apiConfigKey, lastOp, lastStats, lastMock, portfolio, stockData, storedPortfolio, adds>>

\* A caller invokes fetchStockData(symbol, allowMockData); the invocation
\* takes the first slot that holds no pending invocation and runs to its await
\* or to its settlement.
StartFetch(c, symbol, allowMockData, r1, r2) ==
    /\ fetches < MaxFetches
    /\ calls[c].pc # "awaiting"
    /\ \A b \in Calls : b < c => calls[b].pc = "awaiting"
    /\ LET o == FetchBegin(cacheManager, performanceMonitor, symbol, allowMockData,
                           isConfigLoaded, apiConfigKey, configLoader = "loader",
                           loaderKey, r1, r2, now)
       IN  /\ cacheManager' = o.cm
           /\ performanceMonitor' = o.pm
           /\ fetches' = fetches + 1
           /\ remoteCalls' = IF o.status = "awaiting" THEN remoteCalls + 1 ELSE remoteCalls
           /\ calls' = [calls EXCEPT ![c] =
                  [pc |-> IF o.status = "awaiting" THEN "awaiting" ELSE "settled",
                   id |-> fetches + 1, symbol |-> symbol,
                   allowMockData |-> allowMockData,
                   status |-> IF o.status = "awaiting" THEN "none" ELSE o.status,
                   value |-> o.value, error |-> o.error, startedAt |-> now,
                   response |-> NoResponse]]
    /\ UNCHANGED <<now, ticks, lastCleanup, isConfigLoaded, configLoader, loaderKey,
                   apiConfigKey, lastOp, lastStats, lastMock, portfolio, stockData, storedPortfolio, adds>>

\* A settlement of a request sent without an AbortSignal: no timeout ends it.
RemoteSettles_NoAbort(c, response, fetchTime, r1, r2) ==
    /\ calls[c].pc = "awaiting"
    /\ response.kind # "timeout"
    /\ LET o == FetchResume(cacheManager, performanceMonitor, calls[c].symbol,
                            calls[c].allowMockData, response, fetchTime, r1, r2, now)
       IN  /\ cacheManager' = o.cm
           /\ performanceMonitor' = o.pm
           /\ calls' = [calls EXCEPT ![c] =
                  [@ EXCEPT !.pc = "settled", !.status = o.status,
                            !.value = o.value, !.error = o.error,
                            !.response = response]]
    /\ UNCHANGED <<now, ticks, lastCleanup, isConfigLoaded, configLoader, loaderKey,
                   apiConfigKey, fetches, remoteCalls, lastOp, lastStats, lastMock, portfolio, stockData, storedPortfolio, adds>>

\* A settlement that sends the request once more when the remote call failed
\* and no request has been repeated yet.
RemoteSettles_Retry(c, response, fetchTime, r1, r2) ==
    /\ calls[c].pc = "awaiting"
    /\ response.kind = "timeout" => now >= calls[c].startedAt + API_TIMEOUT
    /\ IF response.kind \in {"timeout", "network", "http"} /\ remoteCalls <= fetches
       THEN /\ remoteCalls' = remoteCalls + 1
            /\ UNCHANGED <<cacheManager, performanceMonitor, calls>>
       ELSE LET o == FetchResume(cacheManager, performanceMonitor, calls[c].symbol,
                                 calls[c].allowMockData, response, fetchTime, r1, r2, now)
            IN  /\ cacheManager' = o.cm
                /\ performanceMonitor' = o.pm
                /\ calls' = [calls EXCEPT ![c] =
                       [@ EXCEPT !.pc = "settled", !.status = o.status,
                                 !.value = o.value, !.error = o.error,
                                 !.response = response]]
                /\ UNCHANGED remoteCalls
    /\ UNCHANGED <<now, ticks, lastCleanup, isConfigLoaded, configLoader, loaderKey,
                   apiConfigKey, fetches, lastOp, lastStats, lastMock, portfolio, stockData, storedPortfolio, adds>>

\* The awaited remote call of slot c settles and fetchStockData runs to its
\* own settlement.  The AbortSignal timeout fires API_TIMEOUT after the start.
RemoteSettles(c, response, fetchTime, r1, r2) ==
    /\ calls[c].pc = "awaiting"
    /\ response.kind = "timeout" => now >= calls[c].startedAt + API_TIMEOUT
    /\ LET o == FetchResume(cacheManager, performanceMonitor, calls[c].symbol,
                            calls[c].allowMockData, response, fetchTime, r1, r2, now)
       IN  /\ cacheManager' = o.cm
           /\ performanceMonitor' = o.pm
           /\ calls' = [calls EXCEPT ![c] =
                  [@ EXCEPT !.pc = "settled", !.status = o.status,
                            !.value = o.value, !.error = o.error,
                            !.response = response]]
    /\ UNCHANGED <<now, ticks, lastCleanup, isConfigLoaded, configLoader, loaderKey,
                   apiConfigKey, fetches, remoteCalls, lastOp, lastStats, lastMock, portfolio, stockData, storedPortfolio, adds>>

Next ==
    \/ InitializeConfigBegin
    \/ \E k \in ApiKeys : InitializeConfigEnd(k)
    \/ \E d \in TickSteps : Tick(d)
    \/ CleanupTimer
    \/ \E c \in Calls, symbol \in Symbols, allowMockData \in BOOLEAN, r \in RandDraws :
           StartFetch(c, symbol, allowMockData, r[1], r[2])
    \/ \E c \in Calls, response \in Responses, fetchTime \in Latencies, r \in RandDraws :
           RemoteSettles(c, response, fetchTime, r[1], r[2])

Spec == Init /\ [][Next]_vars

\* ------------------------------------- fetches under a running clock
\* Time passes while a remote call is pending whose timeout has not expired.
TimeoutTick ==
    /\ \E c \in Calls : calls[c].pc = "awaiting" /\ now < calls[c].startedAt + API_TIMEOUT
    /\ now' = now + API_TIMEOUT
    /\ ticks' = ticks + 1
    /\ UNCHANGED <<cacheManager, lastCleanup, performanceMonitor, isConfigLoaded,
                   configLoader, loaderKey, apiConfigKey, calls, fetches, remoteCalls,
                   lastOp, lastStats, lastMock, portfolio, stockData, storedPortfolio, adds>>

\* AbortSignal.timeout(API_TIMEOUT) rejects the pending fetch() of slot c.
AbortFires(c) ==
    \E r \in RandDraws :
        RemoteSettles(c, [kind |-> "timeout", price |-> 0], API_TIMEOUT, r[1], r[2])

\* The identifiers fetched while the clock is followed.
TimedSymbols == {AAPL, ToStringSym, EmptySym}

TimedNext ==
    \/ InitializeConfigBegin
    \/ \E k \in ApiKeys : InitializeConfigEnd(k)
    \/ TimeoutTick
    \/ \E c \in Calls, symbol \in TimedSymbols, allowMockData \in BOOLEAN, r \in RandDraws :
           StartFetch(c, symbol, allowMockData, r[1], r[2])
    \/ \E c \in Calls, response \in Responses, fetchTime \in Latencies, r \in RandDraws :
           RemoteSettles(c, response, fetchTime, r[1], r[2])

\* The clock runs while a call is pending, and a timeout that has expired
\* fires; whether and when the remote source answers is left open.
TimedSpec ==
    /\ Init
    /\ [][TimedNext]_vars
    /\ WF_vars(TimeoutTick)
    /\ \A c \in Calls : WF_vars(AbortFires(c))

\* ------------------------------------------- the CacheManager by itself
\* A client calls the methods of one CacheManager in any order while the clock
\* advances; cleanup is the method the interval timer calls.
CacheKeys == {<<>>, CacheKeyOf(AAPL), CacheKeyOf(ZZ), CacheKeyOf(ToStringSym)}

PayloadA == [NullValue EXCEPT !.kind = "object", !.price = 100]

PayloadB == [NullValue EXCEPT !.kind = "object", !.price = 200]

\* The values handed to set: two objects and undefined.
CacheValues == {PayloadA, PayloadB, UndefinedValue}

CacheDurations == {ERROR_DURATION, MOCK_DURATION}

\* What a call of a cache method leaves alone.
CacheFrame ==
    UNCHANGED <<lastCleanup, performanceMonitor, isConfigLoaded, configLoader,
                loaderKey, apiConfigKey, calls, fetches, remoteCalls, lastStats, lastMock, portfolio, stockData, storedPortfolio, adds>>

CacheTick ==
    /\ ticks < MaxCacheTicks
    /\ ticks' = ticks + 1
    /\ now' = now + TickStep
    /\ lastOp' = [NoOp EXCEPT !.op = "tick", !.sizeBefore = Len(cacheManager.cache)]
    /\ UNCHANGED cacheManager
    /\ CacheFrame

ClientSet(key, value, duration) ==
    /\ LET r == CacheSet(cacheManager, key, value, duration, now)
       IN  /\ cacheManager' = r.cm
           /\ lastOp' = [NoOp EXCEPT !.op = "set", !.key = key, !.value = value,
                                     !.duration = duration, !.ok = r.result,
                                     !.sizeBefore = Len(cacheManager.cache)]
    /\ UNCHANGED <<now, ticks>>
    /\ CacheFrame

ClientGet(key) ==
    /\ cacheManager.hitCount + cacheManager.missCount < MaxRequests
    /\ LET r == CacheGet(cacheManager, key, now)
       IN  /\ cacheManager' = r.cm
           /\ lastOp' = [NoOp EXCEPT !.op = "get", !.key = key, !.returned = r.result,
                                     !.sizeBefore = Len(cacheManager.cache)]
    /\ UNCHANGED <<now, ticks>>
    /\ CacheFrame

ClientHas(key) ==
    /\ cacheManager.hitCount + cacheManager.missCount < MaxRequests
    /\ LET r == CacheHas(cacheManager, key, now)
       IN  /\ cacheManager' = r.cm
           /\ lastOp' = [NoOp EXCEPT !.op = "has", !.key = key, !.ok = r.result,
                                     !.sizeBefore = Len(cacheManager.cache)]
    /\ UNCHANGED <<now, ticks>>
    /\ CacheFrame

ClientDelete(key) ==
    /\ LET r == CacheDelete(cacheManager, key)
       IN  /\ cacheManager' = r.cm
           /\ lastOp' = [NoOp EXCEPT !.op = "delete", !.key = key, !.ok = r.result,
                                     !.sizeBefore = Len(cacheManager.cache)]
    /\ UNCHANGED <<now, ticks>>
    /\ CacheFrame

ClientClear ==
    /\ cacheManager' = CacheClear(cacheManager)
    /\ lastOp' = [NoOp EXCEPT !.op = "clear", !.sizeBefore = Len(cacheManager.cache)]
    /\ UNCHANGED <<now, ticks>>
    /\ CacheFrame

ClientCleanup ==
    /\ cacheManager' = CacheCleanup(cacheManager, now)
    /\ lastOp' = [NoOp EXCEPT !.op = "cleanup", !.sizeBefore = Len(cacheManager.cache)]
    /\ UNCHANGED <<now, ticks>>
    /\ CacheFrame

ClientGetStats ==
    /\ lastOp' = [NoOp EXCEPT !.op = "getStats", !.stats = CacheGetStats(cacheManager),
                              !.sizeBefore = Len(cacheManager.cache)]
    /\ UNCHANGED <<now, ticks, cacheManager>>
    /\ CacheFrame

CacheNext ==
    \/ CacheTick
    \/ \E key \in CacheKeys, value \in CacheValues, duration \in CacheDurations :
           ClientSet(key, value, duration)
    \/ \E key \in CacheKeys : ClientGet(key)
    \/ \E key \in CacheKeys : ClientHas(key)
    \/ \E key \in CacheKeys : ClientDelete(key)
    \/ ClientClear
    \/ ClientCleanup
    \/ ClientGetStats

CacheSpec == Init /\ [][CacheNext]_vars

\* ------------------------------------ the cache of a long-lived process
\* The clock value at which the cache is no longer followed.
LiveHorizon == MaxCleanups * CLEANUP_INTERVAL

\* The keys a long-lived process sets and, now and then, reads.
LiveKeys == {CacheKeyOf(AAPL), CacheKeyOf(ZZ)}

\* Time passes, up to the next firing of the cleanup timer: by the time left
\* to it, or to the instant ERROR_DURATION before it.
LiveTick(d) ==
    /\ d > 0
    /\ now + d <= lastCleanup + CLEANUP_INTERVAL
    /\ now + d <= LiveHorizon
    /\ now' = now + d
    /\ ticks' = ticks + 1
    /\ UNCHANGED <<cacheManager, lastOp>>
    /\ CacheFrame

\* A set whose entry expires within the time the cache is followed for.
LiveSet(key, value, duration) ==
    /\ now + duration <= LiveHorizon
    /\ ClientSet(key, value, duration)

LiveAdvance ==
    \E d \in {lastCleanup + CLEANUP_INTERVAL - now,
              lastCleanup + CLEANUP_INTERVAL - ERROR_DURATION - now} : LiveTick(d)

LiveNext ==
    \/ LiveAdvance
    \/ CleanupTimer
    \/ \E key \in LiveKeys, value \in {PayloadA, PayloadB}, duration \in CacheDurations :
           LiveSet(key, value, duration)
    \/ \E key \in LiveKeys : ClientGet(key)

\* The clock keeps advancing and the interval timer keeps firing.
LiveSpec ==
    /\ Init
    /\ [][LiveNext]_vars
    /\ WF_vars(LiveAdvance)
    /\ WF_vars(CleanupTimer)

\* ------------------------------------------------------- the portfolio
\* What the user has typed into the stockSymbol field when addStock runs.
TypedSymbols == {toLowerAAPL, ZZ, EmptySym}

\* The remote outcomes while stocks are added.
AddResponses ==
    {[kind |-> "network", price |-> 0], [kind |-> "empty", price |-> 0],
     [kind |-> "quote", price |-> 15025]}

\* endTime - startTime of an addStock invocation, in milliseconds.
AddDuration == 250

\* The values Math.random() returns while stocks are added.
AddDraw == <<0, 999990>>

\* A settled promise of fetchStockData.
Promise(o) == [status |-> o.status, value |-> o.value, error |-> o.error]

\* What an addStock step leaves alone.
AddFrame == UNCHANGED <<now, ticks, lastCleanup, isConfigLoaded, configLoader, loaderKey,
                        apiConfigKey, calls, lastOp, lastStats, lastMock>>

\* addStock calls fetchStockData(symbol, allowMockData) in slot a: the fetch
\* runs to its await or to its settlement, and addStock awaits its promise.
AddFetch(a, symbol, allowMockData) ==
    LET o == FetchBegin(cacheManager, performanceMonitor, symbol, allowMockData,
                        isConfigLoaded, apiConfigKey, configLoader = "loader",
                        loaderKey, AddDraw[1], AddDraw[2], now)
    IN  /\ cacheManager' = o.cm
        /\ performanceMonitor' = o.pm
        /\ fetches' = fetches + 1
        /\ remoteCalls' = IF o.status = "awaiting" THEN remoteCalls + 1 ELSE remoteCalls
        /\ adds' = [adds EXCEPT ![a] =
               [pc |-> IF o.status = "awaiting" THEN "remote" ELSE "resuming",
                symbol |-> symbol, strict |-> ~allowMockData,
                promise |-> IF o.status = "awaiting" THEN IdleAdd.promise ELSE Promise(o)]]

\* addStock from its entry to its first await, or to its return when it
\* rejects what was typed.  The invocation takes the first free slot.
AddStockBegin(a, typed) ==
    /\ fetches < MaxAddFetches
    /\ adds[a].pc \in {"idle", "done"}
    /\ \A b \in Adds : b < a => adds[b].pc \notin {"idle", "done"}
    /\ LET symbol == TrimRight(TrimLeft(toUpperCase(sanitizeInput(typed))))
       IN  IF \/ symbol = <<>>
              \/ ~validateInput(symbol)
              \/ \E i \in 1..Len(portfolio) : portfolio[i] = symbol
              \/ ~isConfigLoaded
              \/ configLoader = "null"
           THEN /\ adds' = [adds EXCEPT ![a] = [IdleAdd EXCEPT !.pc = "done",
                                                               !.symbol = symbol]]
                /\ UNCHANGED <<cacheManager, performanceMonitor, fetches, remoteCalls>>
           ELSE AddFetch(a, symbol, FALSE)
    /\ UNCHANGED <<portfolio, stockData, storedPortfolio>>
    /\ AddFrame

\* The remote call of the fetch that slot a awaits settles; the fetch runs to
\* its settlement.
AddStockRemote(a, response) ==
    /\ adds[a].pc = "remote"
    /\ LET o == FetchResume(cacheManager, performanceMonitor, adds[a].symbol,
                            ~adds[a].strict, response, AddDuration,
                            AddDraw[1], AddDraw[2], now)
       IN  /\ cacheManager' = o.cm
           /\ performanceMonitor' = o.pm
           /\ adds' = [adds EXCEPT ![a] = [@ EXCEPT !.pc = "resuming",
                                                    !.promise = Promise(o)]]
    /\ UNCHANGED <<fetches, remoteCalls, portfolio, stockData, storedPortfolio>>
    /\ AddFrame

\* addStock resumes from the promise it awaited: it adds the stock, retries
\* with allowMockData = true after the first fetch failed, or reports the
\* failure.
AddStockResume(a) ==
    /\ adds[a].pc = "resuming"
    /\ LET symbol == adds[a].symbol
           stockInfo == adds[a].promise.value
       IN  IF adds[a].promise.status = "rejected" /\ adds[a].strict
           THEN /\ AddFetch(a, symbol, TRUE)
                /\ UNCHANGED <<portfolio, stockData, storedPortfolio>>
           ELSE IF adds[a].promise.status = "fulfilled" /\ Truthy(stockInfo)
                       /\ stockInfo.price > 0
           THEN /\ portfolio' = Append(portfolio, symbol)
                /\ storedPortfolio' = portfolio'
                /\ stockData' = MapSet(stockData, symbol, stockInfo)
                /\ performanceMonitor' = recordLoadTime(performanceMonitor, AddDuration)
                /\ adds' = [adds EXCEPT ![a].pc = "done"]
                /\ UNCHANGED <<cacheManager, fetches, remoteCalls>>
           ELSE /\ performanceMonitor' =
                       recordError(performanceMonitor,
                                   IF adds[a].promise.status = "rejected"
                                   THEN adds[a].promise.error
                                   ELSE "Invalid stock data received", "add_stock")
                /\ adds' = [adds EXCEPT ![a].pc = "done"]
                /\ UNCHANGED <<cacheManager, fetches, remoteCalls, portfolio, stockData,
                               storedPortfolio>>
    /\ AddFrame

\* removeStock(symbol), called from the remove button of a listed stock.
RemoveStock(symbol) ==
    /\ \E i \in 1..Len(portfolio) : portfolio[i] = symbol
    /\ portfolio' = SelectSeq(portfolio, LAMBDA x : x # symbol)
    /\ stockData' = MapDelete(stockData, symbol)
    /\ storedPortfolio' = portfolio'
    /\ UNCHANGED <<cacheManager, performanceMonitor, fetches, remoteCalls, adds>>
    /\ AddFrame

PortfolioNext ==
    \/ InitializeConfigBegin
    \/ \E k \in ApiKeys : InitializeConfigEnd(k)
    \/ \E a \in Adds, typed \in TypedSymbols : AddStockBegin(a, typed)
    \/ \E a \in Adds, response \in AddResponses : AddStockRemote(a, response)
    \/ \E a \in Adds : AddStockResume(a)
    \/ \E symbol \in {AAPL, ZZ} : RemoveStock(symbol)

PortfolioSpec == Init /\ [][PortfolioNext]_vars

\* ------------------------------------------- the generator by itself
\* The identifiers the generator is called with: the ten of its table, two
\* that are not in it, and three that pass the symbol pattern and name
\* properties every object inherits.
GenSymbols ==
    {AAPL, <<"G", "O", "O", "G", "L">>, <<"M", "S", "F", "T">>, <<"A", "M", "Z", "N">>,
     <<"T", "S", "L", "A">>, <<"N", "V", "D", "A">>, <<"M", "E", "T", "A">>,
     <<"N", "F", "L", "X">>, <<"A", "M", "D">>, <<"C", "R", "M">>,
     ZZ, <<"I", "B", "M">>,
     ToStringSym, <<"v", "a", "l", "u", "e", "O", "f">>,
     <<"c", "o", "n", "s", "t", "r", "u", "c", "t", "o", "r">>}

\* Values of Math.random(), in millionths: both ends of [0, 1), the middle
\* and a value on either side of it.
GenDraws == {0, 250000, 500000, 750000, 999990}

\* The arguments of a call that is about to be made.
GenInit ==
    /\ now = 0
    /\ ticks = 0
    /\ cacheManager = NewCacheManager
    /\ lastCleanup = 0
    /\ performanceMonitor = NewPerformanceMonitor
    /\ isConfigLoaded = FALSE
    /\ configLoader = "null"
    /\ loaderKey = ""
    /\ apiConfigKey = ""
    /\ calls = [c \in Calls |-> IdleCall]
    /\ fetches = 0
    /\ remoteCalls = 0
    /\ lastOp = NoOp
    /\ lastStats = NoStats
    /\ lastMock \in [called : {FALSE}, symbol : GenSymbols, r1 : GenDraws, r2 : GenDraws,
                     out : {NoMock.out}]
    /\ portfolio = <<>>
    /\ stockData = <<>>
    /\ storedPortfolio = <<>>
    /\ adds = [a \in Adds |-> IdleAdd]

\* generateMockStockData(symbol) is called.
Generate ==
    /\ ~lastMock.called
    /\ lastMock' = [lastMock EXCEPT
           !.called = TRUE,
           !.out = generateMockStockData(lastMock.symbol, lastMock.r1, lastMock.r2, now)]
    /\ UNCHANGED <<now, ticks, cacheManager, lastCleanup, performanceMonitor,
                   isConfigLoaded, configLoader, loaderKey, apiConfigKey, calls, fetches,
                   remoteCalls, lastOp, lastStats, portfolio, stockData, storedPortfolio, adds>>

GenNext == Generate

GenSpec == GenInit /\ [][GenNext]_vars

\* ------------------------------------- the PerformanceMonitor by itself
\* What a call of a monitor method leaves alone.
MonitorFrame ==
    UNCHANGED <<now, ticks, cacheManager, lastCleanup, isConfigLoaded, configLoader,
                loaderKey, apiConfigKey, calls, fetches, remoteCalls, lastOp,
                lastMock, portfolio, stockData, storedPortfolio, adds>>

\* A client records API calls, each with a duration; the k-th call recorded
\* since construction took k milliseconds, which tells the samples apart.
MonitorRecordAPICall ==
    /\ performanceMonitor.apiCalls < MaxLoadTimes + MaxOverflow
    /\ performanceMonitor' =
           recordAPICall(performanceMonitor, performanceMonitor.apiCalls + 1)
    /\ UNCHANGED lastStats
    /\ MonitorFrame

\* A client records errors; the k-th error recorded is described as k.
MonitorRecordError ==
    /\ performanceMonitor.errors < MaxRecentErrors + MaxOverflow
    /\ performanceMonitor' =
           recordError(performanceMonitor, performanceMonitor.errors + 1, "client")
    /\ UNCHANGED lastStats
    /\ MonitorFrame

MetricsNext ==
    \/ MonitorRecordAPICall
    \/ MonitorRecordError

MetricsSpec == Init /\ [][MetricsNext]_vars

\* The metrics getStats is called on: counters and latency windows that
\* recording calls reach (each counter has its own recording method, so every
\* combination occurs).
ScoreApiCalls == {0, 1, 25, 40}

ScoreErrors == {0, 1, 3}

ScoreCacheHits == {0, 7, 8, 9, 19}

ScoreCacheMisses == {0, 1, 3}

ScoreLoadTimes ==
    {<<>>, <<1000>>, <<500, 1502>>, <<2000>>, <<1500, 2500, 2003>>, <<250, 2500>>}

ScoreMetrics ==
    {[apiCalls |-> a, cacheHits |-> h, cacheMisses |-> m, errors |-> e, loadTimes |-> l,
      recentErrors |-> [i \in 1..e |-> [error |-> i, context |-> "client"]]] :
        a \in ScoreApiCalls, h \in ScoreCacheHits, m \in ScoreCacheMisses,
        e \in ScoreErrors, l \in ScoreLoadTimes}

ScoreInit ==
    /\ now = 0
    /\ ticks = 0
    /\ cacheManager = NewCacheManager
    /\ lastCleanup = 0
    /\ performanceMonitor \in ScoreMetrics
    /\ isConfigLoaded = FALSE
    /\ configLoader = "null"
    /\ loaderKey = ""
    /\ apiConfigKey = ""
    /\ calls = [c \in Calls |-> IdleCall]
    /\ fetches = 0
    /\ remoteCalls = 0
    /\ lastOp = NoOp
    /\ lastStats = NoStats
    /\ lastMock = NoMock
    /\ portfolio = <<>>
    /\ stockData = <<>>
    /\ storedPortfolio = <<>>
    /\ adds = [a \in Adds |-> IdleAdd]

\* A client calls getStats.
MonitorGetStats ==
    /\ lastStats' = getStats(performanceMonitor)
    /\ UNCHANGED performanceMonitor
    /\ MonitorFrame

ScoreNext == MonitorGetStats

ScoreSpec == ScoreInit /\ [][ScoreNext]_vars

\* ================================================================ claims
\* The configuration fetchStockData finds, by the conditions it tests.
NoConfiguration == ~isConfigLoaded \/ apiConfigKey = ""

DemoMode == ~NoConfiguration /\ configLoader = "loader" /\ isDemoMode(loaderKey)

LiveConfiguration == ~NoConfiguration /\ ~DemoMode

\* This step is the invocation of fetchStockData in slot c.
Started(c) == fetches' = fetches + 1 /\ calls'[c].id = fetches'

\* This step is the settlement of the remote call awaited in slot c.
Resumed(c) == calls[c].pc = "awaiting" /\ calls'[c].pc = "settled"

\* The cache manager cm holds an unexpired entry for key at clock value t.
LiveEntry(cm, key, t) ==
    /\ MapHas(cm.cache, key)
    /\ MapHas(cm.timestamps, key)
    /\ t < MapGet(cm.timestamps, key)

\* The cache manager cm holds value under key, expiring at clock value exp.
Cached(cm, key, value, exp) ==
    /\ MapHas(cm.cache, key)
    /\ MapGet(cm.cache, key) = value
    /\ MapHas(cm.timestamps, key)
    /\ MapGet(cm.timestamps, key) = exp

\* This step invokes fetchStockData in slot c with a valid symbol that has no
\* unexpired cache entry.
StartedOnMiss(c) ==
    /\ Started(c)
    /\ validateInput(calls'[c].symbol)
    /\ ~LiveEntry(cacheManager, CacheKeyOf(calls'[c].symbol), now)

\* C1: for every valid identifier, fetch(identifier, permitSynthetic = true)
\* never fails, whatever the configuration and the remote outcome: it returns
\* a payload whose price is positive.
C1_PermitSyntheticNeverFails ==
    \A c \in Calls :
        (calls[c].pc = "settled" /\ validateInput(calls[c].symbol) /\ calls[c].allowMockData)
            => (calls[c].status = "fulfilled" /\ calls[c].value.price > 0)

\* C2: a fetch for an identifier that fails the format predicate fails at once
\* with the invalid-identifier error for both values of permitSynthetic, leaves
\* the cache (entries and hit/miss counters) untouched, issues no remote call
\* and does not count an API call.
C2_InvalidIdentifierRejected ==
    [][\A c \in Calls :
          (Started(c) /\ ~validateInput(calls'[c].symbol))
              => /\ calls'[c].status = "rejected"
                 /\ calls'[c].error = "Invalid stock symbol provided"
                 /\ cacheManager' = cacheManager
                 /\ remoteCalls' = remoteCalls
                 /\ performanceMonitor'.apiCalls = performanceMonitor.apiCalls]_vars

\* C3: a fetch for a valid identifier that finds an unexpired cache entry
\* returns that entry's payload in the same step, records one cache hit, counts
\* no API call, issues no remote call and writes nothing to the cache.
C3_CacheHitShortCircuits ==
    [][\A c \in Calls :
          (/\ Started(c)
           /\ validateInput(calls'[c].symbol)
           /\ LiveEntry(cacheManager, CacheKeyOf(calls'[c].symbol), now))
              => /\ calls'[c].pc = "settled"
                 /\ calls'[c].status = "fulfilled"
                 /\ calls'[c].value = MapGet(cacheManager.cache, CacheKeyOf(calls'[c].symbol))
                 /\ performanceMonitor'.cacheHits = performanceMonitor.cacheHits + 1
                 /\ performanceMonitor'.cacheMisses = performanceMonitor.cacheMisses
                 /\ performanceMonitor'.apiCalls = performanceMonitor.apiCalls
                 /\ remoteCalls' = remoteCalls
                 /\ cacheManager'.cache = cacheManager.cache
                 /\ cacheManager'.timestamps = cacheManager.timestamps
                 /\ cacheManager'.hitCount = cacheManager.hitCount + 1]_vars

\* C3 witness: the second of two fetches returned the remote payload the first
\* one cached, and only one remote call was issued.
C3_Witness ==
    /\ fetches = 2
    /\ remoteCalls = 1
    /\ performanceMonitor.cacheHits = 1
    /\ performanceMonitor.apiCalls = 1
    /\ calls[1].pc = "settled"
    /\ calls[1].status = "fulfilled"
    /\ calls[1].response = NoResponse
    /\ ~calls[1].value.isMockData
    /\ calls[1].value.price > 0

\* C4: a fetch for a valid identifier that misses the cache records exactly
\* one cache miss and exactly one API call, in its first step, whatever the
\* configuration (so also when no remote call follows); the settlement of its
\* remote call records no further miss or call.
C4_MissCountsOneCall ==
    [][\A c \in Calls :
          /\ StartedOnMiss(c)
                => /\ performanceMonitor'.cacheMisses = performanceMonitor.cacheMisses + 1
                   /\ performanceMonitor'.apiCalls = performanceMonitor.apiCalls + 1
                   /\ performanceMonitor'.cacheHits = performanceMonitor.cacheHits
          /\ Resumed(c)
                => /\ performanceMonitor'.cacheMisses = performanceMonitor.cacheMisses
                   /\ performanceMonitor'.apiCalls = performanceMonitor.apiCalls]_vars

\* C4 witness: one fetch settled in demo mode; it counted one miss and one API
\* call though no remote call was issued.
C4_Witness ==
    /\ DemoMode
    /\ fetches = 1
    /\ calls[1].pc = "settled"
    /\ calls[1].status = "fulfilled"
    /\ performanceMonitor.cacheMisses = 1
    /\ performanceMonitor.apiCalls = 1
    /\ remoteCalls = 0

\* C5: on a cache miss without configuration, fetch(identifier, false) fails
\* with the configuration-unavailable error and fetch(identifier, true) returns
\* synthetic data with a positive price, cached to expire 30000 ms later;
\* neither issues a remote call.
C5_NoConfiguration ==
    [][\A c \in Calls :
          (StartedOnMiss(c) /\ NoConfiguration)
              => /\ remoteCalls' = remoteCalls
                 /\ calls'[c].pc = "settled"
                 /\ ~calls'[c].allowMockData
                        => /\ calls'[c].status = "rejected"
                           /\ calls'[c].error =
                                  "API configuration not available and mock data not allowed"
                 /\ calls'[c].allowMockData
                        => /\ calls'[c].status = "fulfilled"
                           /\ calls'[c].value.isMockData
                           /\ calls'[c].value.price > 0
                           /\ Cached(cacheManager', CacheKeyOf(calls'[c].symbol),
                                     calls'[c].value, now + 30000)]_vars

\* C6: on a cache miss in demo mode, fetch returns synthetic data for both
\* values of permitSynthetic, issues no remote call and caches the data to
\* expire 30000 ms later.
C6_DemoMode ==
    [][\A c \in Calls :
          (StartedOnMiss(c) /\ DemoMode)
              => /\ remoteCalls' = remoteCalls
                 /\ calls'[c].pc = "settled"
                 /\ calls'[c].status = "fulfilled"
                 /\ calls'[c].value.isMockData
                 /\ Cached(cacheManager', CacheKeyOf(calls'[c].symbol),
                           calls'[c].value, now + 30000)]_vars

\* C7: when the remote call of a fetch delivers a quote with a positive price,
\* the fetch returns that price as non-synthetic data, caches it to expire
\* 60000 ms later and records one latency sample.
C7_RemoteSuccess ==
    [][\A c \in Calls :
          (Resumed(c) /\ calls'[c].response.kind = "quote" /\ calls'[c].response.price > 0)
              => /\ calls'[c].status = "fulfilled"
                 /\ calls'[c].value.price = calls'[c].response.price
                 /\ ~calls'[c].value.isMockData
                 /\ Cached(cacheManager', CacheKeyOf(calls'[c].symbol),
                           calls'[c].value, now + 60000)
                 /\ Len(performanceMonitor'.loadTimes) = Len(performanceMonitor.loadTimes) + 1
                 /\ performanceMonitor'.errors = performanceMonitor.errors]_vars

\* C7 witness: a fetch under live configuration settled with the positive
\* quote the remote source delivered, which is now cached, and one latency
\* sample is recorded.
C7_Witness ==
    /\ LiveConfiguration
    /\ fetches = 1
    /\ calls[1].pc = "settled"
    /\ calls[1].response.kind = "quote"
    /\ calls[1].status = "fulfilled"
    /\ calls[1].value.price = 15025
    /\ Len(performanceMonitor.loadTimes) = 1
    /\ Cached(cacheManager, CacheKeyOf(calls[1].symbol), calls[1].value,
              now + STOCK_DURATION)

\* C8: a remote response without a quote, or with a non-positive price, is
\* handled like a remote failure: with permitSynthetic = false the fetch fails;
\* with permitSynthetic = true it returns synthetic data carrying the failure
\* reason, cached to expire 10000 ms later.
C8_SoftFailure ==
    [][\A c \in Calls :
          (/\ Resumed(c)
           /\ \/ calls'[c].response.kind = "empty"
              \/ calls'[c].response.kind = "quote" /\ calls'[c].response.price <= 0)
              => /\ ~calls'[c].allowMockData
                        => /\ calls'[c].status = "rejected"
                           /\ calls'[c].error \in {"Invalid price data received",
                                                   "Invalid stock symbol or API limit reached"}
                 /\ calls'[c].allowMockData
                        => /\ calls'[c].status = "fulfilled"
                           /\ calls'[c].value.isMockData
                           /\ calls'[c].value.errorReason # "none"
                           /\ Cached(cacheManager', CacheKeyOf(calls'[c].symbol),
                                     calls'[c].value, now + 10000)]_vars

\* C9: when the remote call fails by timeout, transport error or a status
\* that is not ok, fetch(identifier, false) fails with that reason and leaves
\* the cache as it was; fetch(identifier, true) returns synthetic data carrying
\* the reason, cached to expire at now + error duration, which is earlier than
\* now + fallback duration and now + live duration.
C9_HardFailure ==
    [][\A c \in Calls :
          (Resumed(c) /\ calls'[c].response.kind \in {"timeout", "network", "http"})
              => /\ ~calls'[c].allowMockData
                        => /\ calls'[c].status = "rejected"
                           /\ calls'[c].error = ResponseError(calls'[c].response.kind)
                           /\ cacheManager' = cacheManager
                 /\ calls'[c].allowMockData
                        => /\ calls'[c].status = "fulfilled"
                           /\ calls'[c].value.isMockData
                           /\ calls'[c].value.errorReason = ResponseError(calls'[c].response.kind)
                           /\ Cached(cacheManager', CacheKeyOf(calls'[c].symbol),
                                     calls'[c].value, now + ERROR_DURATION)
                           /\ now + ERROR_DURATION < now + MOCK_DURATION
                           /\ now + MOCK_DURATION < now + STOCK_DURATION]_vars

\* This step settles, in slot c, a fetch that got past the cache check.
SettledPastCache(c) ==
    \/ StartedOnMiss(c) /\ calls'[c].pc = "settled"
    \/ Resumed(c)

\* This step adds a latency sample, or an error event, to the metrics.
RecordedLatency == Len(performanceMonitor'.loadTimes) = Len(performanceMonitor.loadTimes) + 1

RecordedError == performanceMonitor'.errors = performanceMonitor.errors + 1

\* C10 as claimed: every fetch that gets past the cache check records a
\* latency sample or an error event before it settles.
C10_AlwaysRecords ==
    [][\A c \in Calls : SettledPastCache(c) => (RecordedLatency \/ RecordedError)]_vars

\* The settled fetch of slot c returned what the remote source delivered.
ReturnedRemote(call) ==
    call.status = "fulfilled" /\ call.response.kind = "quote" /\ ~call.value.isMockData

\* The settled fetch of slot c returned synthetic data from a branch in which
\* no error was raised: no configuration, demo mode, or a response without a
\* quote, with permitSynthetic = true in the first and the last.
ReturnedRoutineMock(call) ==
    call.status = "fulfilled" /\ call.value.isMockData /\ call.value.errorReason = "none"

\* C10 amended: a fetch that gets past the cache check records exactly one
\* latency sample and no error when it returns a remote result; it records
\* nothing when it returns synthetic data from the no-configuration branch, the
\* demo branch or the branch of a response without a quote; in every other
\* case (an error was raised in it) it records exactly one error event and no
\* latency sample.
C10_RecordsByBranch ==
    [][\A c \in Calls :
          SettledPastCache(c)
              => IF ReturnedRemote(calls'[c])
                 THEN RecordedLatency /\ performanceMonitor'.errors = performanceMonitor.errors
                 ELSE IF ReturnedRoutineMock(calls'[c])
                 THEN /\ performanceMonitor'.loadTimes = performanceMonitor.loadTimes
                      /\ performanceMonitor'.errors = performanceMonitor.errors
                      /\ \/ calls'[c].response.kind = "empty" /\ calls'[c].allowMockData
                         \/ calls'[c].response = NoResponse /\ DemoMode
                         \/ calls'[c].response = NoResponse /\ NoConfiguration
                                /\ calls'[c].allowMockData
                 ELSE /\ RecordedError
                      /\ performanceMonitor'.loadTimes = performanceMonitor.loadTimes]_vars

\* C10 witness: a fetch in demo mode got past the cache check and returned
\* synthetic data; neither a latency sample nor an error was recorded.
C10_Witness ==
    /\ DemoMode
    /\ fetches = 1
    /\ calls[1].pc = "settled"
    /\ ReturnedRoutineMock(calls[1])
    /\ performanceMonitor.apiCalls = 1
    /\ performanceMonitor.errors = 0
    /\ performanceMonitor.loadTimes = <<>>

\* This step of the fetch in slot c met an error: an invalid identifier, no
\* configuration while synthetic data is not permitted, a remote call that
\* failed, or a response whose payload is empty or invalid.
ErrorEncountered(c) ==
    \/ Started(c) /\ ~validateInput(calls'[c].symbol)
    \/ StartedOnMiss(c) /\ NoConfiguration /\ ~calls'[c].allowMockData
    \/ Resumed(c) /\ calls'[c].response.kind \in
                         {"timeout", "network", "http", "malformed", "empty"}
    \/ Resumed(c) /\ calls'[c].response.kind = "quote" /\ calls'[c].response.price <= 0

\* C11: every error a fetch meets (invalid identifier, configuration
\* unavailable, remote failure, empty or invalid payload) adds one to the
\* error counter of the metrics, both when it propagates to the caller and
\* when a synthetic fallback absorbs it.
C11_EveryErrorCounted ==
    [][\A c \in Calls :
          ErrorEncountered(c) => performanceMonitor'.errors = performanceMonitor.errors + 1]_vars

\* The last step called the cache method op.
Called(op) == lastOp'.op = op

\* The cache manager cm holds an entry for key that has expired at clock value t.
ExpiredEntry(cm, key, t) ==
    /\ MapHas(cm.cache, key)
    /\ MapHas(cm.timestamps, key)
    /\ MapGet(cm.timestamps, key) <= t

\* C12: a value returned by get(key) belongs to an entry with now < expiresAt;
\* an entry with expiresAt <= now is never returned by get, whether or not
\* cleanup has run since it expired: get purges it and returns null.
C12_GetReturnsOnlyLive ==
    [][Called("get")
          => /\ lastOp'.returned # NullValue
                    => /\ LiveEntry(cacheManager, lastOp'.key, now)
                       /\ lastOp'.returned = MapGet(cacheManager.cache, lastOp'.key)
             /\ ExpiredEntry(cacheManager, lastOp'.key, now)
                    => /\ lastOp'.returned = NullValue
                       /\ ~MapHas(cacheManager'.cache, lastOp'.key)]_vars

\* C12 witness: after the clock advanced, get returned a value while the cache
\* still held another entry that had expired and had not been cleaned up.
C12_Witness ==
    /\ lastOp.op = "get"
    /\ lastOp.returned.kind = "object"
    /\ now > 0
    /\ \E i \in 1..Len(cacheManager.timestamps) : cacheManager.timestamps[i].value <= now

\* C13: set with an empty key or an undefined value returns false and mutates
\* nothing: no entry is added, changed or evicted, also when the cache is
\* full, and the hit and miss counters are unchanged.
C13_RejectedSetMutatesNothing ==
    [][(Called("set") /\ (lastOp'.key = <<>> \/ lastOp'.value.kind = "undefined"))
          => (~lastOp'.ok /\ cacheManager' = cacheManager)]_vars

\* C13 witness: set was called with an undefined value on a full cache and
\* returned false.
C13_Witness ==
    /\ lastOp.op = "set"
    /\ lastOp.value.kind = "undefined"
    /\ lastOp.key # <<>>
    /\ ~lastOp.ok
    /\ lastOp.sizeBefore = CacheMaxSize
    /\ Len(cacheManager.cache) = CacheMaxSize

\* C14: the number of entries never exceeds maxSize; a set of a new key when
\* size = maxSize evicts exactly one entry, the one inserted earliest among
\* those present (whatever was read since and whatever the remaining time to
\* live), so that maxSize entries remain and the new one is the newest.
C14_FifoEviction ==
    /\ [](Len(cacheManager.cache) <= CacheMaxSize)
    /\ [][(/\ Called("set")
           /\ lastOp'.ok
           /\ ~MapHas(cacheManager.cache, lastOp'.key)
           /\ Len(cacheManager.cache) = CacheMaxSize)
              => /\ cacheManager'.cache =
                        Append(Tail(cacheManager.cache),
                               [key |-> lastOp'.key, value |-> lastOp'.value])
                 /\ cacheManager'.timestamps =
                        Append(Tail(cacheManager.timestamps),
                               [key |-> lastOp'.key, value |-> now + lastOp'.duration])]_vars

\* C14 witness: a set of a new key found the cache full after an entry had
\* been read; the cache is full again, the new key is its newest entry and the
\* entry that outlives the evicted one expires before the new one.
C14_Witness ==
    /\ lastOp.op = "set"
    /\ lastOp.ok
    /\ lastOp.sizeBefore = CacheMaxSize
    /\ Len(cacheManager.cache) = CacheMaxSize
    /\ cacheManager.cache[CacheMaxSize].key = lastOp.key
    /\ cacheManager.hitCount = 1
    /\ cacheManager.missCount = 0
    /\ cacheManager.timestamps[1].value < cacheManager.timestamps[CacheMaxSize].value

\* C15: set(key, v2, d2) on a key that is already present replaces that key's
\* value and expiry, leaves the number of entries unchanged and evicts no
\* other entry, for every cache size including size = maxSize.
C15_OverwriteKeepsOthers ==
    [][(Called("set") /\ lastOp'.ok /\ MapHas(cacheManager.cache, lastOp'.key))
          => /\ Cached(cacheManager', lastOp'.key, lastOp'.value, now + lastOp'.duration)
             /\ Len(cacheManager'.cache) = Len(cacheManager.cache)
             /\ \A k \in MapKeys(cacheManager.cache) \ {lastOp'.key} :
                    Cached(cacheManager', k, MapGet(cacheManager.cache, k),
                           MapGet(cacheManager.timestamps, k))]_vars

\* C16: every get adds exactly one to hitCount + missCount: a missing key
\* returns null and counts a miss; a present key with expiresAt <= now is
\* deleted (one entry fewer), returns null and counts a miss; a present live
\* key returns its value and counts a hit.
C16_GetCountsOnce ==
    [][Called("get")
          => /\ cacheManager'.hitCount + cacheManager'.missCount =
                    cacheManager.hitCount + cacheManager.missCount + 1
             /\ IF ~MapHas(cacheManager.cache, lastOp'.key)
                THEN /\ lastOp'.returned = NullValue
                     /\ cacheManager'.missCount = cacheManager.missCount + 1
                     /\ cacheManager'.cache = cacheManager.cache
                     /\ cacheManager'.timestamps = cacheManager.timestamps
                ELSE IF ExpiredEntry(cacheManager, lastOp'.key, now)
                THEN /\ lastOp'.returned = NullValue
                     /\ cacheManager'.missCount = cacheManager.missCount + 1
                     /\ Len(cacheManager'.cache) = Len(cacheManager.cache) - 1
                     /\ ~MapHas(cacheManager'.cache, lastOp'.key)
                     /\ ~MapHas(cacheManager'.timestamps, lastOp'.key)
                ELSE /\ lastOp'.returned = MapGet(cacheManager.cache, lastOp'.key)
                     /\ cacheManager'.hitCount = cacheManager.hitCount + 1
                     /\ cacheManager'.cache = cacheManager.cache
                     /\ cacheManager'.timestamps = cacheManager.timestamps]_vars

\* C16 witness: a get found an expired entry, deleted it and returned null,
\* after one hit and with this miss the only one.
C16_Witness ==
    /\ lastOp.op = "get"
    /\ lastOp.key # <<>>
    /\ lastOp.returned = NullValue
    /\ lastOp.sizeBefore = Len(cacheManager.cache) + 1
    /\ cacheManager.hitCount = 1
    /\ cacheManager.missCount = 1

\* C17: has(key) returns true exactly when get(key) in the same state would
\* return a value, and one has call changes hitCount + missCount by exactly
\* one: it leaves the cache as that one get would.
C17_HasIsOneGet ==
    [][Called("has")
          => /\ lastOp'.ok = (CacheGet(cacheManager, lastOp'.key, now).result # NullValue)
             /\ lastOp'.ok = LiveEntry(cacheManager, lastOp'.key, now)
             /\ cacheManager'.hitCount + cacheManager'.missCount =
                    cacheManager.hitCount + cacheManager.missCount + 1
             /\ cacheManager' = CacheGet(cacheManager, lastOp'.key, now).cm]_vars

\* C17 witness: has returned true, and the counters show that one hit.
C17_Witness ==
    /\ lastOp.op = "has"
    /\ lastOp.ok
    /\ cacheManager.hitCount = 1
    /\ cacheManager.missCount = 0

\* C18: one run of cleanup removes every entry with expiresAt <= now and no
\* entry with expiresAt > now, and leaves hitCount, missCount and the values
\* and expiries of the surviving entries unchanged.
C18_CleanupRemovesExpired ==
    [][Called("cleanup")
          => /\ cacheManager'.cache =
                    SelectSeq(cacheManager.cache,
                              LAMBDA e : LiveEntry(cacheManager, e.key, now))
             /\ cacheManager'.timestamps =
                    SelectSeq(cacheManager.timestamps, LAMBDA e : e.value > now)
             /\ cacheManager'.hitCount = cacheManager.hitCount
             /\ cacheManager'.missCount = cacheManager.missCount]_vars

\* C18 witness: cleanup found two entries, removed the expired one and kept
\* the live one, with the counters standing at one hit and one miss.
C18_Witness ==
    /\ lastOp.op = "cleanup"
    /\ lastOp.sizeBefore = 2
    /\ Len(cacheManager.cache) = 1
    /\ cacheManager.timestamps[1].value > now
    /\ cacheManager.hitCount = 1
    /\ cacheManager.missCount = 1

\* C19: for every non-empty key k, defined value v and duration d > 0, in
\* every cache state (a full cache included), set(k, v, d) returns true and a
\* get(k) issued before the clock advances returns v.
C19_SetThenGet ==
    [][/\ (/\ Called("set")
           /\ lastOp'.key # <<>>
           /\ lastOp'.value.kind # "undefined"
           /\ lastOp'.duration > 0) => lastOp'.ok
       /\ (/\ lastOp.op = "set"
           /\ lastOp.ok
           /\ lastOp.duration > 0
           /\ Called("get")
           /\ lastOp'.key = lastOp.key) => lastOp'.returned = lastOp.value]_vars

\* C19 witness: a get on a full cache returned the second payload, as a hit,
\* at a clock value at which an older entry of the cache has expired.
C19_Witness ==
    /\ lastOp.op = "get"
    /\ lastOp.returned = PayloadB
    /\ lastOp.sizeBefore = CacheMaxSize
    /\ Len(cacheManager.cache) = CacheMaxSize
    /\ cacheManager.hitCount = 1
    /\ cacheManager.cache[CacheMaxSize].key = lastOp.key
    /\ cacheManager.timestamps[1].value <= now

\* C20: getStats reports hitRate = 0 when hitCount + missCount = 0 and
\* otherwise 100 * hitCount / (hitCount + missCount) rounded to two decimals
\* (here in hundredths of a percent: the nearest integer to the exact rate);
\* hitRate is within [0, 100] and size equals the number of keys in items.
C20_HitRate ==
    [][Called("getStats")
          => LET st == lastOp'.stats
                 total == cacheManager.hitCount + cacheManager.missCount
                 off == st.hitRate * total - 10000 * cacheManager.hitCount
             IN  /\ total = 0 => st.hitRate = 0
                 /\ total > 0 => (2 * off <= total /\ -2 * off <= total)
                 /\ st.hitRate >= 0
                 /\ st.hitRate <= 10000
                 /\ st.size = Len(st.items)
                 /\ st.size = Cardinality({st.items[i] : i \in 1..Len(st.items)})
                 /\ st.hitCount = cacheManager.hitCount
                 /\ st.missCount = cacheManager.missCount]_vars

\* C20 witness: getStats reported a hit rate of 66.67 after two hits and one
\* miss.
C20_Witness ==
    /\ lastOp.op = "getStats"
    /\ lastOp.stats.hitRate = 6667
    /\ lastOp.stats.hitCount = 2
    /\ lastOp.stats.missCount = 1

\* C21: after clear() the cache has no entries, hitCount = 0 and missCount =
\* 0, and a get of any key stored before returns null (and is the first miss
\* counted); the metrics counters of the PerformanceMonitor are unchanged.
C21_ClearResets ==
    [][/\ Called("clear")
             => /\ cacheManager' = NewCacheManager
                /\ performanceMonitor' = performanceMonitor
                /\ \A k \in MapKeys(cacheManager.cache) :
                       CacheGet(cacheManager', k, now).result = NullValue
       /\ (lastOp.op = "clear" /\ Called("get"))
             => /\ lastOp'.returned = NullValue
                /\ cacheManager'.hitCount = 0
                /\ cacheManager'.missCount = 1
                /\ cacheManager'.cache = <<>>]_vars

\* C21 witness: clear was called on a full cache; nothing is left of it.
C21_Witness ==
    /\ lastOp.op = "clear"
    /\ lastOp.sizeBefore = CacheMaxSize
    /\ now > 0
    /\ cacheManager = NewCacheManager

\* C22: delete(key) returns true exactly when an entry for key existed, and
\* removes it whether live or expired; a second delete of the same key returns
\* false and changes nothing; delete never changes hitCount, missCount or any
\* other entry.
C22_DeleteIdempotent ==
    [][/\ Called("delete")
             => LET k == lastOp'.key
                IN  /\ lastOp'.ok = MapHas(cacheManager.cache, k)
                    /\ cacheManager'.cache =
                           SelectSeq(cacheManager.cache, LAMBDA e : e.key # k)
                    /\ cacheManager'.timestamps =
                           SelectSeq(cacheManager.timestamps, LAMBDA e : e.key # k)
                    /\ cacheManager'.hitCount = cacheManager.hitCount
                    /\ cacheManager'.missCount = cacheManager.missCount
       /\ (lastOp.op = "delete" /\ Called("delete") /\ lastOp'.key = lastOp.key)
             => (~lastOp'.ok /\ cacheManager' = cacheManager)]_vars

\* C22 witness: delete removed one of two entries and returned true; the
\* entry that is left has expired, and the counters stand at one hit.
C22_Witness ==
    /\ lastOp.op = "delete"
    /\ lastOp.ok
    /\ lastOp.sizeBefore = 2
    /\ Len(cacheManager.cache) = 1
    /\ cacheManager.timestamps[1].value <= now
    /\ cacheManager.hitCount = 1
    /\ cacheManager.missCount = 0

\* The average of the latency window of pm is above ms milliseconds.
AvgAbove(pm, ms) ==
    Len(pm.loadTimes) > 0 /\ SumSeq(pm.loadTimes) > ms * Len(pm.loadTimes)

\* The cache hit rate of pm is above pct percent.
HitRateAbove(pm, pct) ==
    /\ pm.cacheHits + pm.cacheMisses > 0
    /\ 100 * pm.cacheHits > pct * (pm.cacheHits + pm.cacheMisses)

\* 100 + delta - 10 * errorRatePercent of pm, rounded and clamped to [0, 100].
ScoreWith(pm, delta) ==
    IF pm.apiCalls > 0
    THEN Clamp100(RoundRatio((100 + delta) * pm.apiCalls - 1000 * pm.errors, pm.apiCalls))
    ELSE Clamp100(100 + delta)

\* C23: the latency penalty of the performance score is 0 for an average
\* latency <= 1000 ms, 20 for an average in (1000, 2000] and 30 in total for an
\* average > 2000 ms (seen where no error and no cache bonus enter the score).
C23_LatencyPenalty ==
    (/\ lastStats.taken
     /\ performanceMonitor.errors = 0
     /\ ~HitRateAbove(performanceMonitor, 70))
        => lastStats.performanceScore =
               100 - (IF AvgAbove(performanceMonitor, 2000) THEN 30
                      ELSE IF AvgAbove(performanceMonitor, 1000) THEN 20 ELSE 0)

\* C24: the cache bonus of the performance score is 0 for a hit rate <= 70%,
\* 10 for a hit rate in (70%, 90%] and 20 in total for a hit rate > 90%, added
\* before the score is clamped (seen where no latency penalty enters it).
C24_CacheBonus ==
    (lastStats.taken /\ ~AvgAbove(performanceMonitor, 1000))
        => lastStats.performanceScore =
               ScoreWith(performanceMonitor,
                         IF HitRateAbove(performanceMonitor, 90) THEN 20
                         ELSE IF HitRateAbove(performanceMonitor, 70) THEN 10 ELSE 0)

\* C25: for every metrics state, errors > calls and calls = 0 included, the
\* performance score is a number in [0, 100]; it starts from 100 and subtracts
\* 10 * errorRatePercent, where errorRatePercent = 100 * errors / calls and is
\* 0 when calls = 0 (seen where no latency penalty and no bonus enter it).
C25_ScoreBounded ==
    lastStats.taken
        => /\ lastStats.performanceScore \in 0..100
           /\ lastStats.errorRate =
                  (IF performanceMonitor.apiCalls > 0
                   THEN [num |-> 100 * performanceMonitor.errors,
                         den |-> performanceMonitor.apiCalls]
                   ELSE [num |-> 0, den |-> 1])
           /\ (~AvgAbove(performanceMonitor, 1000) /\ ~HitRateAbove(performanceMonitor, 70))
                  => lastStats.performanceScore = ScoreWith(performanceMonitor, 0)

\* C25 witness: getStats was called with three errors against one call and
\* a hit rate above 90%, and reported the score 0.
C25_Witness ==
    /\ lastStats.taken
    /\ performanceMonitor.errors = 3
    /\ performanceMonitor.apiCalls = 1
    /\ HitRateAbove(performanceMonitor, 90)
    /\ lastStats.performanceScore = 0

\* C26: after any sequence of recording calls the latency window holds at
\* most 100 samples and the error buffer at most 10; each holds exactly the
\* most recent samples in arrival order (the k-th recorded sample is k), the
\* oldest being dropped first, while the error counter counts every error.
C26_RingBuffers ==
    LET lt == performanceMonitor.loadTimes
        re == performanceMonitor.recentErrors
        calls_ == performanceMonitor.apiCalls
        errs == performanceMonitor.errors
    IN  /\ Len(lt) = (IF calls_ < MaxLoadTimes THEN calls_ ELSE MaxLoadTimes)
        /\ Len(lt) <= 100
        /\ \A i \in 1..Len(lt) : lt[i] = calls_ - Len(lt) + i
        /\ Len(re) = (IF errs < MaxRecentErrors THEN errs ELSE MaxRecentErrors)
        /\ Len(re) <= 10
        /\ \A i \in 1..Len(re) : re[i].error = errs - Len(re) + i

\* C26 witness: 101 latency samples and 11 errors have been recorded; both
\* buffers are full and each starts with the second sample recorded.
C26_Witness ==
    /\ performanceMonitor.apiCalls = 101
    /\ performanceMonitor.errors = 11
    /\ Len(performanceMonitor.loadTimes) = 100
    /\ performanceMonitor.loadTimes[1] = 2
    /\ Len(performanceMonitor.recentErrors) = 10
    /\ performanceMonitor.recentErrors[1].error = 2

\* The invocation in slot b awaits its remote call for the given symbol.
AwaitingFor(b, symbol) == calls[b].pc = "awaiting" /\ calls[b].symbol = symbol

\* C27: with live configuration and no cached entry, a fetch that starts while
\* another fetch for the same identifier is still awaiting its remote call
\* misses the cache and issues a remote call of its own: one more remote call,
\* one more API call counted, and the fetch awaits its own response.
C27_NoCoalescing ==
    [][\A c \in Calls :
          (/\ StartedOnMiss(c)
           /\ LiveConfiguration
           /\ \E b \in Calls \ {c} : AwaitingFor(b, calls'[c].symbol))
              => /\ calls'[c].pc = "awaiting"
                 /\ remoteCalls' = remoteCalls + 1
                 /\ performanceMonitor'.apiCalls = performanceMonitor.apiCalls + 1
                 /\ performanceMonitor'.cacheMisses = performanceMonitor.cacheMisses + 1
                 /\ performanceMonitor'.cacheHits = performanceMonitor.cacheHits
                 /\ \A b \in Calls \ {c} : calls'[b] = calls[b]]_vars

\* C27 witness: two fetches for one valid identifier are awaiting their remote
\* calls together; two remote calls were issued and two API calls counted.
C27_Witness ==
    /\ LiveConfiguration
    /\ calls[1].pc = "awaiting"
    /\ calls[2].pc = "awaiting"
    /\ calls[1].symbol = calls[2].symbol
    /\ validateInput(calls[1].symbol)
    /\ remoteCalls = 2
    /\ performanceMonitor.apiCalls = 2
    /\ performanceMonitor.cacheMisses = 2

\* The expiry durations fetchStockData hands to the cache.
FetchDurations == {STOCK_DURATION, MOCK_DURATION, ERROR_DURATION}

\* C28: when the remote call of a fetch completes after an overlapping fetch
\* for the same identifier has written the cache, and this fetch writes the
\* cache too, the entry left (value and expiry) is the one this fetch wrote,
\* whichever of the two started first.
C28_LastCompletionWins ==
    [][\A c \in Calls :
          (/\ Resumed(c)
           /\ calls'[c].status = "fulfilled"
           /\ \E b \in Calls \ {c} :
                  /\ calls[b].pc = "settled"
                  /\ calls[b].status = "fulfilled"
                  /\ calls[b].response # NoResponse
                  /\ calls[b].symbol = calls[c].symbol)
              => \E d \in FetchDurations :
                     /\ Cached(cacheManager', CacheKeyOf(calls[c].symbol),
                               calls'[c].value, now + d)
                     /\ d = (IF ReturnedRemote(calls'[c]) THEN STOCK_DURATION
                             ELSE IF ReturnedRoutineMock(calls'[c]) THEN MOCK_DURATION
                             ELSE ERROR_DURATION)]_vars

\* C28 witness: of two overlapping fetches for one identifier the one that
\* started first completed last (the clock had advanced in between); both
\* wrote the cache with different payloads, and the entry left is the payload
\* and the expiry of the fetch that started first.
C28_Witness ==
    /\ calls[1].pc = "settled"
    /\ calls[2].pc = "settled"
    /\ calls[1].id < calls[2].id
    /\ calls[1].symbol = calls[2].symbol
    /\ calls[1].status = "fulfilled"
    /\ calls[2].status = "fulfilled"
    /\ calls[1].response # NoResponse
    /\ ReturnedRemote(calls[2])
    /\ calls[1].value # calls[2].value
    /\ calls[2].value.lastUpdated < calls[1].value.lastUpdated
    /\ Cached(cacheManager, CacheKeyOf(calls[1].symbol), calls[1].value,
              calls[1].value.lastUpdated + ERROR_DURATION)

ReturnedNonCache(c) ==
    /\ calls'[c].status = "fulfilled"
    /\ \/ Resumed(c)
       \/ /\ Started(c)
          /\ calls'[c].pc = "settled"
          /\ ~(/\ validateInput(calls'[c].symbol)
               /\ LiveEntry(cacheManager, CacheKeyOf(calls'[c].symbol), now))

\* C30: in the step in which a fetch settles with a result that did not come
\* from the cache, that payload is in the cache under the key of the fetch and
\* the recordings of its branch are in the metrics: the miss and the API call
\* (counted once the cache check is passed), the latency sample of a remote
\* result, the error of a fallback that carries an error reason.
C30_EffectsBeforeSettle ==
    [][\A c \in Calls :
          ReturnedNonCache(c)
              => /\ \E d \in FetchDurations :
                        Cached(cacheManager', CacheKeyOf(calls'[c].symbol),
                               calls'[c].value, now + d)
                 /\ StartedOnMiss(c)
                        => /\ performanceMonitor'.cacheMisses = performanceMonitor.cacheMisses + 1
                           /\ performanceMonitor'.apiCalls = performanceMonitor.apiCalls + 1
                 /\ Resumed(c)
                        => /\ performanceMonitor.cacheMisses >= 1
                           /\ performanceMonitor.apiCalls >= 1
                 /\ ReturnedRemote(calls'[c]) => RecordedLatency
                 /\ calls'[c].value.errorReason # "none" => RecordedError]_vars

\* C30 witness: a fetch whose remote call timed out has settled with the
\* synthetic fallback; the fallback is cached under its key and the error, the
\* miss and the API call are recorded.
C30_Witness ==
    /\ fetches = 1
    /\ calls[1].pc = "settled"
    /\ calls[1].response.kind = "timeout"
    /\ calls[1].status = "fulfilled"
    /\ calls[1].value.errorReason = ResponseError("timeout")
    /\ Cached(cacheManager, CacheKeyOf(calls[1].symbol), calls[1].value,
              now + ERROR_DURATION)
    /\ performanceMonitor.errors = 1
    /\ performanceMonitor.cacheMisses = 1
    /\ performanceMonitor.apiCalls = 1

\* C33: outside demo mode, a fetch with permitSynthetic = false that returns
\* successfully returns real (non-synthetic) data, in every cache state, also
\* one in which an earlier fetch cached synthetic data for the identifier.
C33_StrictFetchReturnsReal ==
    [][\A c \in Calls :
          (/\ Started(c) \/ Resumed(c)
           /\ ~DemoMode
           /\ calls'[c].pc = "settled"
           /\ ~calls'[c].allowMockData
           /\ calls'[c].status = "fulfilled")
              => ~calls'[c].value.isMockData]_vars

\* This step settles the fetch of slot c with a failure.
Failed(c) ==
    /\ Started(c) \/ Resumed(c)
    /\ calls'[c].pc = "settled"
    /\ calls'[c].status = "rejected"

\* C36: a fetch with permitSynthetic = false that fails adds no cache entry
\* and changes no entry's value or expiry; the only cache change of the step
\* in which it starts is the removal of an expired entry for its own key by
\* the cache check, and the step in which its remote call fails changes
\* nothing in the cache.
C36_FailedStrictFetchWritesNothing ==
    [][\A c \in Calls :
          LET key == CacheKeyOf(calls'[c].symbol)
              expired == /\ MapHas(cacheManager.cache, key)
                         /\ ~LiveEntry(cacheManager, key, now)
          IN  /\ (Failed(c) /\ ~calls'[c].allowMockData /\ Resumed(c))
                     => cacheManager' = cacheManager
              /\ (Started(c) /\ ~calls'[c].allowMockData
                    /\ (calls'[c].pc = "awaiting" \/ calls'[c].status = "rejected"))
                     => IF validateInput(calls'[c].symbol) /\ expired
                        THEN /\ cacheManager'.cache = MapDelete(cacheManager.cache, key)
                             /\ cacheManager'.timestamps =
                                    MapDelete(cacheManager.timestamps, key)
                        ELSE /\ cacheManager'.cache = cacheManager.cache
                             /\ cacheManager'.timestamps = cacheManager.timestamps]_vars

\* C36 witness: of two overlapping fetches for one identifier the one with
\* permitSynthetic = false failed on its remote call, and the entry the other
\* one wrote is in the cache with its value and expiry.
C36_Witness ==
    /\ calls[1].pc = "settled"
    /\ calls[2].pc = "settled"
    /\ calls[1].symbol = calls[2].symbol
    /\ ~calls[1].allowMockData
    /\ calls[1].status = "rejected"
    /\ calls[1].response.kind \in {"timeout", "network", "http"}
    /\ ReturnedRemote(calls[2])
    /\ Cached(cacheManager, CacheKeyOf(calls[2].symbol), calls[2].value,
              calls[2].value.lastUpdated + STOCK_DURATION)

\* C37: after any sequence of fetches the counters of the cache equal those
\* of the metrics: hitCount = cacheHits, missCount = cacheMisses, and apiCalls
\* = cacheMisses.
C37_CountersAgree ==
    /\ cacheManager.hitCount = performanceMonitor.cacheHits
    /\ cacheManager.missCount = performanceMonitor.cacheMisses
    /\ performanceMonitor.apiCalls = performanceMonitor.cacheMisses

\* C37 witness: two fetches for valid identifiers were made, one missed and
\* one hit the cache; both pairs of counters stand at one.
C37_Witness ==
    /\ fetches = 2
    /\ \A c \in Calls : calls[c].id # 0 => validateInput(calls[c].symbol)
    /\ cacheManager.hitCount = 1
    /\ performanceMonitor.cacheHits = 1
    /\ cacheManager.missCount = 1
    /\ performanceMonitor.cacheMisses = 1
    /\ performanceMonitor.apiCalls = 1

\* C39: in every cache state the value map and the expiry map have the same
\* keys, in the same insertion order: every stored value has an expiry and
\* every expiry belongs to a stored value.
C39_MapsInStep ==
    /\ Len(cacheManager.cache) = Len(cacheManager.timestamps)
    /\ \A i \in 1..Len(cacheManager.cache) :
           cacheManager.cache[i].key = cacheManager.timestamps[i].key
    /\ MapKeys(cacheManager.cache) = MapKeys(cacheManager.timestamps)

\* C39 witness: a get has just removed an expired entry from a full cache;
\* one entry is left, in both maps.
C39_Witness ==
    /\ lastOp.op = "get"
    /\ lastOp.returned = NullValue
    /\ lastOp.sizeBefore = CacheMaxSize
    /\ Len(cacheManager.cache) = CacheMaxSize - 1
    /\ Len(cacheManager.timestamps) = CacheMaxSize - 1
    /\ cacheManager.cache[1].key = cacheManager.timestamps[1].key

\* Metrics states of a second run: a fresh monitor, and one that has
\* recorded a cache hit, a slow API call and an error.
OtherMetrics ==
    {NewPerformanceMonitor,
     recordError(recordAPICall(recordCacheHit(NewPerformanceMonitor), 2500),
                 "Failed to fetch", "stock_fetch")}

\* The outcome o of a run of fetchStockData is what this step did in slot c:
\* the same cache afterwards, the same promise.
SameOutcome(o, c) ==
    /\ o.cm = cacheManager'
    /\ o.status = (IF calls'[c].pc = "awaiting" THEN "awaiting" ELSE calls'[c].status)
    /\ calls'[c].pc = "settled" => (o.value = calls'[c].value /\ o.error = calls'[c].error)

\* C34: the metrics are purely observational: whatever a fetch does in a
\* step, a run from the same cache, configuration, clock and remote outcome,
\* but with another metrics state, takes the same branch, returns the same
\* result and leaves the same cache.
C34_MetricsObservational ==
    [][\A c \in Calls, pm2 \in OtherMetrics :
          /\ Started(c)
                => \E r \in RandDraws :
                       SameOutcome(FetchBegin(cacheManager, pm2, calls'[c].symbol,
                                              calls'[c].allowMockData, isConfigLoaded,
                                              apiConfigKey, configLoader = "loader",
                                              loaderKey, r[1], r[2], now), c)
          /\ Resumed(c)
                => \E r \in RandDraws, fetchTime \in Latencies :
                       SameOutcome(FetchResume(cacheManager, pm2, calls[c].symbol,
                                               calls[c].allowMockData, calls'[c].response,
                                               fetchTime, r[1], r[2], now), c)]_vars

\* C34 witness: the metrics hold an error and a latency sample of earlier
\* fetches, and a fetch made with them has settled with a synthetic fallback.
C34_Witness ==
    /\ fetches = 2
    /\ performanceMonitor.errors = 2
    /\ performanceMonitor.apiCalls = 2
    /\ \E c \in Calls :
           /\ calls[c].id = 2
           /\ calls[c].pc = "settled"
           /\ calls[c].status = "fulfilled"
           /\ calls[c].value.errorReason # "none"

\* C32: while the cleanup timer keeps firing, an entry that is in the cache
\* is eventually removed from it: no entry stays forever, read or not.
C32_ExpiredEventuallyRemoved ==
    \A key \in LiveKeys :
        MapHas(cacheManager.cache, key) ~> ~MapHas(cacheManager.cache, key)

\* C32 witness: the last call of a client was a set that stored an entry; the
\* cleanup timer has fired since, and the cache is empty.
C32_Witness ==
    /\ lastOp.op = "set"
    /\ lastOp.ok
    /\ lastOp.duration = MOCK_DURATION
    /\ lastCleanup = LiveHorizon
    /\ now = lastCleanup
    /\ cacheManager.cache = <<>>
    /\ cacheManager.hitCount + cacheManager.missCount = 0

\* C31: every fetch invocation eventually settles: an invocation that is
\* awaiting its remote call settles, at the latest when the timeout of 10000
\* ms expires, which is handled as a remote failure.
C31_EveryFetchSettles ==
    /\ \A c \in Calls : (calls[c].pc = "awaiting") ~> (calls[c].pc = "settled")
    /\ [][\A c \in Calls :
             /\ Started(c) => calls'[c].pc \in {"awaiting", "settled"}
             /\ (Resumed(c) /\ calls'[c].response.kind = "timeout")
                   => /\ now >= calls[c].startedAt + 10000
                      /\ IF calls[c].allowMockData
                         THEN calls'[c].status = "rejected"
                                  => calls'[c].error = "basePrice.toFixed is not a function"
                         ELSE /\ calls'[c].status = "rejected"
                              /\ calls'[c].error = ResponseError("timeout")]_vars

\* C31 witness: the remote source never answered the only fetch; its timeout
\* expired 10000 ms after the start and the fetch failed with it.
C31_Witness ==
    /\ fetches = 1
    /\ calls[1].pc = "settled"
    /\ calls[1].response.kind = "timeout"
    /\ now = calls[1].startedAt + API_TIMEOUT
    /\ ~calls[1].allowMockData
    /\ calls[1].status = "rejected"
    /\ calls[1].error = ResponseError("timeout")

\* The base price the generator draws for an identifier that is not in its
\* table, in thousandths: Math.random() * 400 + 50.
DrawnBasePrice(r1) == (r1 * 400) \div 1000 + 50000

\* C35: for every identifier, recognized or not, the generator returns a
\* payload marked synthetic whose price is positive: the table value for a
\* recognized identifier, otherwise a base price in [50, 450); the change lies
\* within 5% of the base price on either side.  (Price and change are compared
\* as returned, rounded to cents: the change within half a cent of the 5%.)
C35_GeneratorBounds ==
    lastMock.called
        => LET found == basePrices(lastMock.symbol)
               base == IF found.kind = "number" THEN found.value
                       ELSE DrawnBasePrice(lastMock.r1)
               value == lastMock.out.value
           IN  /\ ~lastMock.out.threw
               /\ value.isMockData
               /\ value.price > 0
               /\ value.price = toFixed2(base)
               /\ found.kind # "number" => (50000 <= base /\ base < 450000)
               /\ 200 * value.change <= base + 100
               /\ 200 * value.change >= 0 - base - 100

\* C38: the portfolio never contains the same symbol twice, under every
\* interleaving of addStock invocations (overlapping ones for one symbol
\* included) and removeStock.
C38_PortfolioUnique ==
    \A i, j \in 1..Len(portfolio) : i # j => portfolio[i] # portfolio[j]

====
